---- MODULE Spec2Model ----
(***************************************************************************)
(* A model of the analysis-and-conversation core of the Syntaxtual editor  *)
(* extension: the response parser and the severity filter of the model     *)
(* client and the analysis engine, the per-file result cache, the          *)
(* repository scan, the conversation store and the rule merge.             *)
(*                                                                         *)
(* Conventions.  An optional value (T | null | undefined) is a sequence of *)
(* length 0 (absent) or 1 (present).  A JavaScript Map is a sequence of    *)
(* <<key, value>> pairs in insertion order.  An async function is a        *)
(* process whose steps are the stretches of code between two awaits; a     *)
(* step is atomic because the extension host runs on one thread.           *)
(***************************************************************************)
EXTENDS Integers, Sequences, FiniteSets, Bags, TLC

VARIABLES
    fAnomalies,     \* filterBySeverity: the argument `anomalies`
    fThreshold,     \* filterBySeverity: the argument `threshold`
    fOut,           \* filterBySeverity: the returned list, once it has run
    aClient,        \* OpenAIService.client is not null
    aFileName,      \* analyze: context.fileName
    aLines,         \* analyze: context.content.split('\n').length
    aResponse,      \* analyze: what the remote call answers
    aNow,           \* analyze: Date.now() while the response is parsed
    aOut,           \* analyze: how the call ended, once it has run
    apiKey,         \* ConfigManager.openaiApiKey is a non-empty string
    client,         \* OpenAIService.client is not null
    severityThreshold, \* ConfigManager.severityThreshold
    analysisCache,  \* CodeAnalyzer.analysisCache: Map<path, AnalysisResult>
    calls,          \* the bag of the analyzeFile calls in flight
    now,            \* Date.now()
    ev,             \* the operation that acted last: see EventOut
    lastSuccess,    \* history: per path, the list the last successful
                    \* analyzeFile returned since the path was last cleared
    scan,           \* the analyzeRepository call: its position and locals
    scanLog,        \* history: how each file of the scan ended, in order
    conversations,  \* ConversationManager.conversations: Map<anomalyId, object>
    heap,           \* the Conversation objects alive, by object identity
    globalState,    \* the persisted 'conversations' entry of globalState
    sends,          \* the bag of the sendMessage calls in flight
    customRules,    \* ConfigManager.customRules: the user's rules
    workspaceConfig, \* what loadWorkspaceConfig returns
    mergedRules,    \* what getMergedRules returned, once it has run
    sidebarAnomalies, \* SidebarProvider._anomalies
    currentAnomalyId, \* SidebarProvider._currentAnomalyId, when it is set
    commands,        \* the sendMessage commands the sidebar took past its
                    \* guards, in order of arrival: see Command
    fixes,          \* the applyFix commands the sidebar took past its guard
                    \* and has not finished: see FixCommand
    outbox,         \* the messages posted to the webview and not yet
                    \* handled by it, oldest first
    webview,        \* the state of the App component: see WebviewState
    sClient,        \* suggestFix: OpenAIService.client is not null
    sAnomaly,       \* suggestFix: the argument `anomaly`
    sResponse,      \* suggestFix: what the remote call answers
    sOut,           \* suggestFix: how the call ended, once it has run
    systemPrompt,   \* analyzeFile: the rules listed in the system prompt of
                    \* the request, once it is built
    currentAnomalies, \* extension.ts: the module variable currentAnomalies
    diagnostics,    \* DiagnosticsProvider.diagnosticCollection: per file, the
                    \* anomalies its diagnostics were made from
    decorations,     \* per file, the anomalies the decorations of its editor
                    \* were made from
    flights,        \* history: the analyzeFile calls in flight in the order
                    \* they started: see Flight
    analyses        \* the analyses the sidebar runs for its webview, in order
                    \* of arrival: see Analysis

filterVars == <<fAnomalies, fThreshold, fOut>>
analyzeVars == <<aClient, aFileName, aLines, aResponse, aNow, aOut>>
configVars == <<apiKey, client, severityThreshold>>
cacheVars == <<analysisCache, calls, now, ev, lastSuccess>>
scanVars == <<scan, scanLog>>
engineVars == <<configVars, cacheVars, scanVars>>
convVars == <<conversations, heap, globalState, sends>>
ruleVars == <<customRules, workspaceConfig, mergedRules>>
panelVars == <<fixes, outbox, webview>>
bridgeVars == <<sidebarAnomalies, currentAnomalyId, commands, panelVars>>
fixVars == <<sClient, sAnomaly, sResponse, sOut>>
promptVars == <<systemPrompt>>
surfaceVars == <<currentAnomalies, diagnostics, decorations>>
overlapVars == <<flights>>
uiVars == <<analyses>>
\* What the callers of the analyzer keep: the list of the sidebar, the order
\* the calls started in, the analyses of the webview.
callerVars == <<sidebarAnomalies, overlapVars, uiVars>>
outsideCallers ==
    <<filterVars, analyzeVars, convVars, ruleVars, currentAnomalyId, commands,
      panelVars, fixVars, promptVars, surfaceVars>>
outsideEngine == <<outsideCallers, callerVars>>
vars == <<outsideEngine, engineVars>>

----------------------------------------------------------------------------
(* Bounds of the model. *)

MaxAnoms == 2       \* anomalies in one model response / one filtered list
MaxLines == 2       \* lines of an analyzed file
MaxTime == 1        \* values of the millisecond clock
MaxFiles == 2       \* files of the workspace
MaxCalls == 2       \* analyzeFile calls in flight at once
MaxSends == 1       \* sendMessage calls in flight at once
MaxMsgs == 3        \* messages of one conversation
MaxRacers == 2      \* overlapping sendMessage calls on one anomaly
MaxRaceMsgs == 5    \* messages of the conversation they race on
MaxRuleIds == 2     \* distinct rule ids
MaxRules == 2       \* rules in the user's list and in the workspace's list

----------------------------------------------------------------------------
(* Generic helpers. *)

Max(a, b) == IF a >= b THEN a ELSE b
Min(a, b) == IF a <= b THEN a ELSE b

SeqsUpTo(S, n) == UNION {[1..k -> S] : k \in 0..n}

Absent == <<>>
Some(v) == <<v>>

\* A JavaScript Map: <<key, value>> pairs in insertion order.
MapHas(map, k) == \E i \in 1..Len(map) : map[i][1] = k

\* Map.get(k), absent when there is no such key.
MapGet(map, k) ==
    IF MapHas(map, k)
    THEN Some(map[CHOOSE i \in 1..Len(map) : map[i][1] = k][2])
    ELSE Absent

\* The mutant appends without looking for the key.
MapSetAppend(map, k, v) == Append(map, <<k, v>>)

\* Map.set(k, v): the value of an existing key is replaced in place, a new
\* key is appended.
MapSet(map, k, v) ==
    IF MapHas(map, k)
    THEN [i \in 1..Len(map) |-> IF map[i][1] = k THEN <<k, v>> ELSE map[i]]
    ELSE Append(map, <<k, v>>)

\* Map.delete(k)
MapDelete(map, k) == SelectSeq(map, LAMBDA e : e[1] # k)

\* Array.from(map.values())
MapValues(map) == [i \in 1..Len(map) |-> map[i][2]]

MapKeys(map) == {map[i][1] : i \in 1..Len(map)}

----------------------------------------------------------------------------
(* CodeAnalyzer.filterBySeverity *)

Severities == {"error", "warning", "info"}

severityOrder == [error |-> 0, warning |-> 1, info |-> 2]

\* severityOrder[s] ?? 2
SeverityLevel(s) == IF s \in DOMAIN severityOrder THEN severityOrder[s] ELSE 2

\* The mutant keeps only what is strictly more severe than the threshold.
RECURSIVE filterBySeverityStrict(_, _)
filterBySeverityStrict(anomalies, threshold) ==
    IF anomalies = <<>> THEN <<>>
    ELSE LET a == Head(anomalies)
             rest == filterBySeverityStrict(Tail(anomalies), threshold)
         IN IF SeverityLevel(a.severity) < SeverityLevel(threshold)
            THEN <<a>> \o rest ELSE rest

RECURSIVE filterBySeverity(_, _)
filterBySeverity(anomalies, threshold) ==
    IF anomalies = <<>> THEN <<>>
    ELSE LET a == Head(anomalies)
             rest == filterBySeverity(Tail(anomalies), threshold)
         IN IF SeverityLevel(a.severity) <= SeverityLevel(threshold)
            THEN <<a>> \o rest ELSE rest

----------------------------------------------------------------------------
(* OpenAIService: the response parser. *)

AnomalyTypes == {"potential_bug", "security_issue", "performance", "code_smell",
                 "best_practice", "logic_error", "type_mismatch", "unused_code",
                 "complexity", "naming_convention"}

\* The names every object literal inherits from Object.prototype: looked up
\* in typeMap or severityMap they give a function (or, for __proto__, the
\* prototype object), which is truthy.
InheritedNames ==
    {"constructor", "toString", "toLocaleString", "valueOf", "hasOwnProperty",
     "isPrototypeOf", "propertyIsEnumerable", "__proto__", "__defineGetter__",
     "__defineSetter__", "__lookupGetter__", "__lookupSetter__"}

\* What the lookup of an inherited name gives, written as a string.
Inherited(name) == IF name = "__proto__" THEN "[object Object]" ELSE "[function]"

\* typeMap[type] || AnomalyType.CODE_SMELL
mapAnomalyType(type) ==
    IF type \in AnomalyTypes THEN type
    ELSE IF type \in InheritedNames THEN Inherited(type)
    ELSE "code_smell"

\* severityMap[severity] || 'info'
mapSeverity(severity) ==
    IF severity \in Severities THEN severity
    ELSE IF severity \in InheritedNames THEN Inherited(severity)
    ELSE "info"

\* new vscode.Range(startLine, 0, endLine, endCharacter): a Position with a
\* negative line is rejected (the constructor throws), and a start that is
\* after the end is swapped with it.  The start character is 0 and the end
\* character is >= 0, so on equal lines the start is never after the end and
\* the lines alone decide.
RangeThrows(startLine, endLine) == startLine < 0 \/ endLine < 0

Range(startLine, endLine) ==
    IF startLine <= endLine
    THEN [start |-> startLine, end |-> endLine]
    ELSE [start |-> endLine, end |-> startLine]

\* const startLine = Math.max(0, a.startLine - 1)
ClampStart(a) == Max(0, a.startLine - 1)

\* The mutant forgets the conversion from 1-indexed to 0-indexed lines.
ClampEndOneIndexed(a, nLines) == Min(nLines - 1, a.endLine)

\* The mutant converts the end line and does not clamp it.
ClampEndUnclamped(a, nLines) == a.endLine - 1

\* const endLine = Math.min(lines.length - 1, a.endLine - 1)
ClampEnd(a, nLines) == Min(nLines - 1, a.endLine - 1)

\* The mutant names the first file of the workspace as the anomaly's file.
ParseOneFirstFile(a, index, fileName, nLines, time) ==
    LET r == Range(ClampStart(a), ClampEnd(a, nLines))
    IN [id |-> <<fileName, index, time>>,
        type |-> mapAnomalyType(a.type),
        severity |-> mapSeverity(a.severity),
        file |-> 1,
        start |-> r.start,
        end |-> r.end,
        snippet |-> <<ClampStart(a), ClampEnd(a, nLines) + 1>>]

\* One element of aiAnomalies.map((a, index) => ...); index is 0-based.
\* snippet holds the two arguments of lines.slice(startLine, endLine + 1).
ParseOne(a, index, fileName, nLines, time) ==
    LET r == Range(ClampStart(a), ClampEnd(a, nLines))
    IN [id |-> <<fileName, index, time>>,
        type |-> mapAnomalyType(a.type),
        severity |-> mapSeverity(a.severity),
        file |-> fileName,
        start |-> r.start,
        end |-> r.end,
        snippet |-> <<ClampStart(a), ClampEnd(a, nLines) + 1>>]

ParseThrows(aiAnomalies, nLines) ==
    \E i \in 1..Len(aiAnomalies) :
        RangeThrows(ClampStart(aiAnomalies[i]), ClampEnd(aiAnomalies[i], nLines))

parseAnomalies(aiAnomalies, fileName, nLines, time) ==
    [i \in 1..Len(aiAnomalies) |->
        ParseOne(aiAnomalies[i], i - 1, fileName, nLines, time)]

\* What the remote chat-completion call can answer: the call is rejected, the
\* content is empty or absent, the content is not JSON, the content is JSON
\* without an "anomalies" array, or it is JSON with one.
ResponseKinds == {"rejected", "empty", "invalid", "noarray", "json"}

Response(kind, anomalies) == [kind |-> kind, anomalies |-> anomalies]

Returned(anomalies) == [status |-> "returned", anomalies |-> anomalies, error |-> ""]
Thrown(error) == [status |-> "thrown", anomalies |-> <<>>, error |-> error]
Pending == [status |-> "pending", anomalies |-> <<>>, error |-> ""]

\* The mutant swallows every failure after the request and answers [].
analyzeSwallow(hasClient, response, fileName, nLines, time) ==
    IF ~hasClient THEN Thrown("NotConfigured")
    ELSE IF response.kind = "json" /\ ~ParseThrows(response.anomalies, nLines)
    THEN Returned(parseAnomalies(response.anomalies, fileName, nLines, time))
    ELSE Returned(<<>>)

\* OpenAIService.analyze, from the guard on the client to the return or throw.
analyze(hasClient, response, fileName, nLines, time) ==
    IF ~hasClient THEN Thrown("NotConfigured")
    ELSE IF response.kind = "rejected" THEN Thrown("UpstreamError")
    ELSE IF response.kind = "empty" THEN Returned(<<>>)
    ELSE IF response.kind = "invalid" THEN Thrown("SyntaxError")
    ELSE IF response.kind = "noarray" THEN Thrown("TypeError")
    ELSE IF ParseThrows(response.anomalies, nLines) THEN Thrown("IllegalArgument")
    ELSE Returned(parseAnomalies(response.anomalies, fileName, nLines, time))

----------------------------------------------------------------------------
(* The files of the workspace and the events of the engine. *)

Paths == 1..MaxFiles

\* An event: the operation, its argument (a path or an anomaly id, 0 when it
\* has none) and what it gave back; for clearCache, the number of entries it
\* evicted.
EventOut(op, arg, out) == [op |-> op, arg |-> arg, out |-> out]
Event(op, arg) == EventOut(op, arg, <<>>)
Evicted(op, path, n) == EventOut(op, path, <<n>>)
NoEvent == Event("none", 0)

\* No repository scan: the state of scan and scanLog outside a scan.
NoScan == [pc |-> "idle", files |-> <<>>, i |-> 0, inner |-> "none",
           allAnomalies |-> <<>>, analyzedFiles |-> <<>>]
ScanIdle == scan = NoScan /\ scanLog = <<>>

\* The conversation store and the rule merge, untouched.
ConvIdle ==
    /\ conversations = <<>> /\ heap = <<>> /\ globalState = <<>> /\ sends = <<>>
RulesIdle ==
    /\ customRules = <<>> /\ workspaceConfig = <<>> /\ mergedRules = <<>>

\* The useState initial values of App that the chat panel depends on:
\* isChatLoading, and whether conversation is set and for which anomaly.
WebviewState(isChatLoading, conversation) ==
    [isChatLoading |-> isChatLoading, conversation |-> conversation]

\* No applyFix command, nothing posted, the App as it mounts.
PanelIdle ==
    /\ fixes = <<>> /\ outbox = <<>> /\ webview = WebviewState(FALSE, <<>>)

\* The sidebar before its view has taken any command.
BridgeIdle ==
    /\ sidebarAnomalies = <<>> /\ currentAnomalyId = <<>> /\ commands = <<>>
    /\ PanelIdle

UiIdle == analyses = <<>>

OverlapIdle == flights = <<>>

\* Nothing analyzed: no diagnostic, no decoration.
SurfaceIdle ==
    /\ currentAnomalies = <<>>
    /\ diagnostics = [p \in Paths |-> <<>>]
    /\ decorations = [p \in Paths |-> <<>>]

\* No request built.
PromptIdle == systemPrompt = <<>>

\* No suggestFix call.
FixIdle ==
    /\ sClient = FALSE /\ sAnomaly = <<>> /\ sResponse = <<>> /\ sOut = <<>>

----------------------------------------------------------------------------
(* Inputs. *)

\* Severity strings: the three of the contract and one outside it.
SeverityStrings == Severities \cup {"critical"}

\* Line numbers a response can carry for a file of at most MaxLines lines:
\* below 1, inside the file, and beyond its end.
LineNumbers == 0..(MaxLines + 1)

\* The type and severity strings of a response anomaly, inside and outside
\* the closed sets.
AIKinds == {<<"performance", "error">>, <<"typo", "critical">>}

AIAnomalies ==
    {[type |-> k[1], severity |-> k[2], startLine |-> s, endLine |-> e] :
        k \in AIKinds, s \in LineNumbers, e \in LineNumbers}

Responses ==
    {Response(k, <<>>) : k \in ResponseKinds \ {"json"}}
        \cup {Response("json", l) : l \in SeqsUpTo(AIAnomalies, MaxAnoms)}

FilterAnomalies ==
    {[id |-> <<"f", i, 0>>, severity |-> s] : i \in 0..(MaxAnoms - 1), s \in Severities}

----------------------------------------------------------------------------
(* SpecFilter: filterBySeverity applied to every list and threshold. *)

FilterIdle == fAnomalies = <<>> /\ fThreshold = "info" /\ fOut = Absent
EngineIdle ==
    /\ apiKey = FALSE /\ client = FALSE /\ severityThreshold = "info"
    /\ analysisCache = <<>> /\ calls = <<>> /\ now = 0
    /\ ev = NoEvent /\ lastSuccess = <<>>
    /\ ScanIdle
AnalyzeIdle ==
    /\ aClient = FALSE /\ aFileName = 1 /\ aLines = 1
    /\ aResponse = Response("empty", <<>>) /\ aNow = 0 /\ aOut = Pending

InitFilter ==
    /\ fAnomalies \in SeqsUpTo(FilterAnomalies, MaxAnoms)
    /\ fThreshold \in SeverityStrings
    /\ fOut = Absent
    /\ AnalyzeIdle
    /\ EngineIdle
    /\ ConvIdle
    /\ RulesIdle
    /\ BridgeIdle
    /\ UiIdle
    /\ OverlapIdle
    /\ SurfaceIdle
    /\ PromptIdle
    /\ FixIdle

Filter ==
    /\ fOut = Absent
    /\ fOut' = Some(filterBySeverity(fAnomalies, fThreshold))
    /\ UNCHANGED <<fAnomalies, fThreshold, analyzeVars, engineVars, convVars, ruleVars,
                   bridgeVars, fixVars, promptVars, surfaceVars, overlapVars,
                   uiVars>>

NextFilter == Filter

SpecFilter == InitFilter /\ [][NextFilter]_vars

----------------------------------------------------------------------------
(* SpecAnalyze: OpenAIService.analyze applied to every response. *)

InitAnalyze ==
    /\ aClient \in BOOLEAN
    /\ aFileName = 1
    /\ aLines \in 1..MaxLines
    /\ aResponse \in IF aClient THEN Responses ELSE {Response("empty", <<>>)}
    /\ aNow \in 0..MaxTime
    /\ aOut = Pending
    /\ FilterIdle
    /\ EngineIdle
    /\ ConvIdle
    /\ RulesIdle
    /\ BridgeIdle
    /\ UiIdle
    /\ OverlapIdle
    /\ SurfaceIdle
    /\ PromptIdle
    /\ FixIdle

Analyze ==
    /\ aOut = Pending
    /\ aOut' = analyze(aClient, aResponse, aFileName, aLines, aNow)
    /\ UNCHANGED <<aClient, aFileName, aLines, aResponse, aNow, filterVars,
                   engineVars, convVars, ruleVars, bridgeVars, fixVars,
                   promptVars, surfaceVars, overlapVars, uiVars>>

NextAnalyze == Analyze

SpecAnalyze == InitAnalyze /\ [][NextAnalyze]_vars

----------------------------------------------------------------------------
(* SpecMap: OpenAIService.analyze applied to a response of one anomaly, over
   the type and severity strings the response can carry. *)

\* Type strings: the ten of the enum, one outside it, and one that names a
\* property every object inherits.
TypeStrings == AnomalyTypes \cup {"typo", "constructor"}

\* Severity strings: the three of the contract, one outside it, and one that
\* names a property every object inherits.
MapSeverityStrings == Severities \cup {"critical", "toString"}

InitMap ==
    /\ aClient = TRUE
    /\ aFileName = 1
    /\ aLines = 1
    /\ aResponse \in
         {Response("json", <<[type |-> t, severity |-> v, startLine |-> 1, endLine |-> 1]>>) :
            t \in TypeStrings, v \in MapSeverityStrings}
    /\ aNow \in 0..MaxTime
    /\ aOut = Pending
    /\ FilterIdle
    /\ EngineIdle
    /\ ConvIdle
    /\ RulesIdle
    /\ BridgeIdle
    /\ UiIdle
    /\ OverlapIdle
    /\ SurfaceIdle
    /\ PromptIdle
    /\ FixIdle

SpecMap == InitMap /\ [][NextAnalyze]_vars

----------------------------------------------------------------------------
(* SpecFix: OpenAIService.suggestFix applied to every anomaly and response. *)

\* What the remote call can answer to suggestFix: the call is rejected, the
\* content is empty or absent, the content is not JSON, the content is the
\* JSON null (reading a property of it throws), or it is a JSON value, whose
\* description and newCode are there or not.
FixResponseKinds == {"rejected", "empty", "invalid", "null", "json"}

FixResponse(kind, description, newCode) ==
    [kind |-> kind, description |-> description, newCode |-> newCode]

FixResponses ==
    {FixResponse(k, Absent, Absent) : k \in FixResponseKinds \ {"json"}}
        \cup {FixResponse("json", d, c) :
                d \in {Absent, Some("guard the call")}, c \in {Absent, Some("x?.y")}}

\* The fields of an Anomaly that suggestFix copies into the edit.
FixAnomalies ==
    {[id |-> <<p, 0, 0>>, file |-> p, start |-> s, end |-> e] :
        p \in Paths, s \in 0..(MaxLines - 1), e \in 0..(MaxLines - 1)}

FixReturned(fix) == [status |-> "returned", fix |-> fix, error |-> ""]
FixThrown(error) == [status |-> "thrown", fix |-> Absent, error |-> error]

\* The CodeFix built from a parsed response.
CodeFix(response, anomaly) ==
    [description |-> response.description,
     edits |-> <<[file |-> anomaly.file,
                  range |-> [start |-> anomaly.start, end |-> anomaly.end],
                  newText |-> response.newCode]>>]

\* The mutant lets what the try block throws through.
suggestFixRethrow(hasClient, response, anomaly) ==
    IF ~hasClient THEN FixThrown("NotConfigured")
    ELSE IF response.kind = "json" THEN FixReturned(Some(CodeFix(response, anomaly)))
    ELSE IF response.kind = "empty" THEN FixReturned(Absent)
    ELSE FixThrown("Error")

\* OpenAIService.suggestFix, from the guard on the client to the return or
\* throw: whatever the try block throws is logged and answered with null.
suggestFix(hasClient, response, anomaly) ==
    IF ~hasClient THEN FixThrown("NotConfigured")
    ELSE IF response.kind = "json" THEN FixReturned(Some(CodeFix(response, anomaly)))
    ELSE FixReturned(Absent)

InitFix ==
    /\ sClient \in BOOLEAN
    /\ sAnomaly \in {a \in FixAnomalies : a.start <= a.end}
    /\ sResponse \in IF sClient THEN FixResponses
                     ELSE {FixResponse("empty", Absent, Absent)}
    /\ sOut = Absent
    /\ FilterIdle
    /\ AnalyzeIdle
    /\ EngineIdle
    /\ ConvIdle
    /\ RulesIdle
    /\ BridgeIdle
    /\ UiIdle
    /\ OverlapIdle
    /\ SurfaceIdle
    /\ PromptIdle

SuggestFix ==
    /\ sOut = Absent
    /\ sOut' = Some(suggestFix(sClient, sResponse, sAnomaly))
    /\ UNCHANGED <<sClient, sAnomaly, sResponse, filterVars, analyzeVars, engineVars,
                   convVars, ruleVars, bridgeVars, promptVars, surfaceVars,
                   overlapVars, uiVars>>

NextFix == SuggestFix

SpecFix == InitFix /\ [][NextFix]_vars

----------------------------------------------------------------------------
(* SpecConv: ConversationManager.  The Map holds references: a Conversation
   is an object of the heap, and a sendMessage call in flight keeps the
   object it looked up even when the Map has dropped it since.  The clock
   stands still: every Date.now() of a behaviour reads the same millisecond. *)

\* The ids of the two anomalies that conversations are about.
AnomalyIds == {1, 2}

Titles == {"leak"}

\* The fields of an Anomaly that startConversation reads.
ConvAnomalies == {[id |-> i, title |-> t] : i \in AnomalyIds, t \in Titles}

UserContents == {"why"}

ChatReplies == {"because"}

\* Everything outside the conversation store and the clock.
outsideConv ==
    <<configVars, analysisCache, calls, lastSuccess, scanVars, filterVars,
      analyzeVars, ruleVars, fixVars, promptVars, surfaceVars, overlapVars,
      uiVars>>

\* The opening message: an assistant message synthesized from the anomaly.
initialMessage(anomaly, time) ==
    [id |-> time, role |-> "assistant", content |-> <<"opening", anomaly.title>>,
     timestamp |-> time]

\* The mutant forgets to push the opening message.
newConversationEmpty(anomaly, time) ==
    [id |-> <<"conv", anomaly.id>>, anomalyId |-> anomaly.id,
     messages |-> <<>>, createdAt |-> time, updatedAt |-> time]

newConversation(anomaly, time) ==
    [id |-> <<"conv", anomaly.id>>, anomalyId |-> anomaly.id,
     messages |-> <<initialMessage(anomaly, time)>>,
     createdAt |-> time, updatedAt |-> time]

\* The mutant gives the user's message the role of the reply.
userMessageAsAssistant(content, time) ==
    [id |-> time, role |-> "assistant", content |-> <<"user", content>>,
     timestamp |-> time]

userMessage(content, time) ==
    [id |-> time, role |-> "user", content |-> <<"user", content>>,
     timestamp |-> time]

\* The id is built from Date.now() + 1, the timestamp from Date.now().
assistantMessage(response, time) ==
    [id |-> time + 1, role |-> "assistant", content |-> <<"reply", response>>,
     timestamp |-> time]

\* The mutant puts the message in front, as unshift would.
PushFront(hp, oid, message, time) ==
    [hp EXCEPT ![oid] = [@ EXCEPT !.messages = <<message>> \o @,
                                  !.updatedAt = time]]

\* conversation.messages.push(message); conversation.updatedAt = Date.now()
Push(hp, oid, message, time) ==
    [hp EXCEPT ![oid] = [@ EXCEPT !.messages = Append(@, message),
                                  !.updatedAt = time]]

\* conversation.messages.filter(m => m.role !== 'system')
chatHistory(messages) == SelectSeq(messages, LAMBDA m : m.role # "system")

\* The system message chat builds from the anomaly context.
SystemPrompt == [role |-> "system", content |-> <<"prompt">>]

\* The mutant sends the history without a system prompt.
chatRequestBare(messages) ==
    [i \in 1..Len(messages) |-> [role |-> messages[i].role, content |-> messages[i].content]]

\* The messages of the request chat sends: the system prompt, then the role
\* and the content of each message it was handed.
chatRequest(messages) ==
    <<SystemPrompt>> \o
    [i \in 1..Len(messages) |-> [role |-> messages[i].role, content |-> messages[i].content]]

\* The identity of a new object: the lowest one not in use.
FreeOid(hp) ==
    CHOOSE o \in 1..(Cardinality(DOMAIN hp) + 1) :
        /\ o \notin DOMAIN hp
        /\ \A q \in 1..(o - 1) : q \in DOMAIN hp

\* The objects still referenced, by the Map or by a call in flight.
Collect(hp, map, calling) ==
    LET live == {map[i][2] : i \in 1..Len(map)} \cup
                {s.oid : s \in BagToSet(calling)}
    IN [o \in live \cap DOMAIN hp |-> hp[o]]

\* The mutant persists every conversation as it was before its last push.
saveConversationsStale(map, hp) ==
    [i \in 1..Len(map) |->
        <<map[i][1],
          [hp[map[i][2]] EXCEPT !.messages = SubSeq(@, 1, Len(@) - 1)]>>]

\* saveConversations: the whole Map, written to globalState by value.
saveConversations(map, hp) ==
    [i \in 1..Len(map) |-> <<map[i][1], hp[map[i][2]]>>]

\* The mutant creates a conversation whether or not there is one.
startConversationAnew(map, hp, saved, anomaly, time) ==
    LET oid == FreeOid(hp)
        hp2 == [o \in DOMAIN hp \cup {oid} |->
                   IF o = oid THEN newConversation(anomaly, time) ELSE hp[o]]
        map2 == MapSet(map, anomaly.id, oid)
    IN [conversations |-> map2, heap |-> hp2,
        globalState |-> saveConversations(map2, hp2), returned |-> oid]

\* ConversationManager.startConversation
startConversation(map, hp, saved, anomaly, time) ==
    LET conversation == MapGet(map, anomaly.id)
    IN IF conversation # Absent
       THEN [conversations |-> map, heap |-> hp, globalState |-> saved,
             returned |-> conversation[1]]
       ELSE LET oid == FreeOid(hp)
                hp2 == [o \in DOMAIN hp \cup {oid} |->
                           IF o = oid THEN newConversation(anomaly, time)
                           ELSE hp[o]]
                map2 == MapSet(map, anomaly.id, oid)
            IN [conversations |-> map2, heap |-> hp2,
                globalState |-> saveConversations(map2, hp2), returned |-> oid]

\* The mutant falls back to the first conversation of the Map.
SendTargetAny(map, anomalyId) ==
    IF MapHas(map, anomalyId) \/ map = <<>> THEN MapGet(map, anomalyId)
    ELSE Some(map[1][2])

\* const conversation = this.conversations.get(anomalyId)
SendTarget(map, anomalyId) == MapGet(map, anomalyId)

\* A sendMessage call in flight: where it is suspended, the conversation
\* object it holds, and where in the messages its userMessage was pushed.
Send(pc, oid, anomalyId, userAt) ==
    [pc |-> pc, oid |-> oid, anomalyId |-> anomalyId, userAt |-> userAt]

\* The replies that calls in flight will still push on the object.
PendingReplies(oid) ==
    BagCardinality([s \in {t \in BagToSet(sends) : t.oid = oid /\ t.pc = "chat"}
                       |-> sends[s]])

InitConv ==
    /\ conversations = <<>>
    /\ heap = <<>>
    /\ globalState = <<>>
    /\ sends = EmptyBag
    /\ now = 0
    /\ ev = NoEvent
    /\ apiKey = FALSE
    /\ client = FALSE
    /\ severityThreshold = "info"
    /\ analysisCache = <<>>
    /\ calls = EmptyBag
    /\ lastSuccess = [p \in Paths |-> Absent]
    /\ ScanIdle
    /\ FilterIdle
    /\ AnalyzeIdle
    /\ RulesIdle
    /\ BridgeIdle
    /\ UiIdle
    /\ OverlapIdle
    /\ SurfaceIdle
    /\ PromptIdle
    /\ FixIdle

\* startConversation up to its return: what follows the await of the save
\* is the return of the object already chosen.
StartConversationCore(anomaly) ==
    LET r == startConversation(conversations, heap, globalState, anomaly, now)
    IN /\ conversations' = r.conversations
       /\ heap' = Collect(r.heap, r.conversations, sends)
       /\ globalState' = r.globalState
       /\ ev' = EventOut("startConversation", anomaly.id, <<r.returned>>)
       /\ UNCHANGED <<sends, now, outsideConv>>

StartConversation(anomaly) ==
    StartConversationCore(anomaly) /\ UNCHANGED bridgeVars

\* sendMessage up to the await of the chat call, with at most maxSends
\* calls in flight and maxMsgs messages in a conversation.  The chat call is
\* handed the messages as they are after the push.
SendStartWithinCore(anomalyId, content, maxSends, maxMsgs) ==
    LET conversation == SendTarget(conversations, anomalyId)
    IN IF conversation = Absent
       THEN /\ ev' = Event("sendMessage.notFound", anomalyId)
            /\ UNCHANGED <<convVars, now, outsideConv>>
       ELSE LET oid == conversation[1]
            IN /\ BagCardinality(sends) < maxSends
               /\ Len(heap[oid].messages) + PendingReplies(oid) + 2 <= maxMsgs
               /\ heap' = Push(heap, oid, userMessage(content, now), now)
               /\ sends' = sends (+)
                     SetToBag({Send("chat", oid, anomalyId,
                                    Len(heap[oid].messages) + 1)})
               /\ ev' = EventOut("sendMessage", anomalyId,
                                 <<oid, content, heap'[oid].messages,
                                   chatRequest(chatHistory(heap'[oid].messages))>>)
               /\ UNCHANGED <<conversations, globalState, now, outsideConv>>

SendStartWithin(anomalyId, content, maxSends, maxMsgs) ==
    SendStartWithinCore(anomalyId, content, maxSends, maxMsgs) /\ UNCHANGED bridgeVars

SendStart(anomalyId, content) ==
    SendStartWithin(anomalyId, content, MaxSends, MaxMsgs)

\* The chat call resolved: sendMessage up to the await of the save.
ChatRepliedCore(send, response) ==
    /\ send.pc = "chat"
    /\ heap' = Push(heap, send.oid, assistantMessage(response, now), now)
    /\ globalState' = saveConversations(conversations, heap')
    /\ sends' = (sends (-) SetToBag({send})) (+)
                SetToBag({Send("save", send.oid, send.anomalyId, send.userAt)})
    /\ ev' = EventOut("sendMessage.chat", send.anomalyId,
                      <<send.oid, response, send.userAt>>)
    /\ UNCHANGED <<conversations, now, outsideConv>>

ChatReplied(send, response) ==
    ChatRepliedCore(send, response) /\ UNCHANGED bridgeVars

\* The chat call rejected (no client, or the request failed): sendMessage
\* rejects, and the user message stays where it was pushed.
ChatFailedCore(send) ==
    /\ send.pc = "chat"
    /\ sends' = sends (-) SetToBag({send})
    /\ heap' = Collect(heap, conversations, sends')
    /\ ev' = EventOut("sendMessage.failed", send.anomalyId, <<send.oid>>)
    /\ UNCHANGED <<conversations, globalState, now, outsideConv>>

ChatFailed(send) ==
    ChatFailedCore(send) /\ UNCHANGED bridgeVars

\* The save resolved: the event fires with the conversation object as it
\* is now, and sendMessage returns.
SendSavedCore(send) ==
    /\ send.pc = "save"
    /\ sends' = sends (-) SetToBag({send})
    /\ heap' = Collect(heap, conversations, sends')
    /\ ev' = EventOut("sendMessage.return", send.anomalyId,
                      <<send.oid, heap[send.oid].messages, send.userAt>>)
    /\ UNCHANGED <<conversations, globalState, now, outsideConv>>

SendSaved(send) ==
    SendSavedCore(send) /\ UNCHANGED bridgeVars

DeleteConversation(anomalyId) ==
    /\ conversations' = MapDelete(conversations, anomalyId)
    /\ heap' = Collect(heap, conversations', sends)
    /\ globalState' = saveConversations(conversations', heap')
    /\ ev' = Event("deleteConversation", anomalyId)
    /\ UNCHANGED <<sends, now, outsideConv, bridgeVars>>

ClearAllConversations ==
    /\ conversations' = <<>>
    /\ heap' = Collect(heap, conversations', sends)
    /\ globalState' = saveConversations(conversations', heap')
    /\ ev' = Event("clearAllConversations", 0)
    /\ UNCHANGED <<sends, now, outsideConv, bridgeVars>>

NextConv ==
    \/ \E anomaly \in ConvAnomalies : StartConversation(anomaly)
    \/ \E anomalyId \in AnomalyIds, content \in UserContents :
          SendStart(anomalyId, content)
    \/ \E send \in BagToSet(sends), response \in ChatReplies :
          ChatReplied(send, response)
    \/ \E send \in BagToSet(sends) : ChatFailed(send)
    \/ \E send \in BagToSet(sends) : SendSaved(send)
    \/ \E anomalyId \in AnomalyIds : DeleteConversation(anomalyId)
    \/ ClearAllConversations

SpecConv == InitConv /\ [][NextConv]_vars

----------------------------------------------------------------------------
(* SpecRace: sendMessage calls that overlap on the one anomaly 1, whose
   conversation may be deleted and started again meanwhile. *)

RaceAnomaly == [id |-> 1, title |-> "leak"]

RaceStart == StartConversation(RaceAnomaly)

RaceSend(content) == SendStartWithin(RaceAnomaly.id, content, MaxRacers, MaxRaceMsgs)

RaceDelete == DeleteConversation(RaceAnomaly.id)

NextRace ==
    \/ RaceStart
    \/ \E content \in UserContents : RaceSend(content)
    \/ \E send \in BagToSet(sends), response \in ChatReplies :
          ChatReplied(send, response)
    \/ \E send \in BagToSet(sends) : SendSaved(send)
    \/ RaceDelete

SpecRace == InitConv /\ [][NextRace]_vars

----------------------------------------------------------------------------
(* SpecRules: ConfigManager.getMergedRules. *)

\* The fields of a rule besides its id, in two variants.
RuleVariants == {[name |-> "strict", enabled |-> TRUE],
                 [name |-> "lax", enabled |-> FALSE]}

Rules ==
    {[id |-> i, name |-> v.name, enabled |-> v.enabled] :
        i \in 1..MaxRuleIds, v \in RuleVariants}

RuleLists == SeqsUpTo(Rules, MaxRules)

\* loadWorkspaceConfig: null without a workspace folder or when
\* .syntaxtual.json cannot be read or parsed, else the parsed object, whose
\* rules are optional.
WorkspaceConfigs ==
    {Absent, Some([rules |-> Absent])} \cup {Some([rules |-> Some(l)]) : l \in RuleLists}

\* workspaceConfig?.rules || []
workspaceRulesOf(config) ==
    IF config = Absent THEN <<>>
    ELSE IF config[1].rules = Absent THEN <<>>
    ELSE config[1].rules[1]

\* for (const rule of rules) ruleMap.set(rule.id, rule)
RECURSIVE SetAll(_, _)
SetAll(ruleMap, rules) ==
    IF rules = <<>> THEN ruleMap
    ELSE SetAll(MapSet(ruleMap, Head(rules).id, Head(rules)), Tail(rules))

\* The mutant sets the user's rules first, so that the workspace's win.
getMergedRulesWorkspaceLast(userRules, config) ==
    MapValues(SetAll(SetAll(<<>>, userRules), workspaceRulesOf(config)))

\* ConfigManager.getMergedRules
getMergedRules(userRules, config) ==
    MapValues(SetAll(SetAll(<<>>, workspaceRulesOf(config)), userRules))

InitRules ==
    /\ customRules \in RuleLists
    /\ workspaceConfig \in WorkspaceConfigs
    /\ mergedRules = Absent
    /\ FilterIdle
    /\ AnalyzeIdle
    /\ EngineIdle
    /\ ConvIdle
    /\ BridgeIdle
    /\ UiIdle
    /\ OverlapIdle
    /\ SurfaceIdle
    /\ PromptIdle
    /\ FixIdle

GetMergedRules ==
    /\ mergedRules = Absent
    /\ mergedRules' = Some(getMergedRules(customRules, workspaceConfig))
    /\ UNCHANGED <<customRules, workspaceConfig, filterVars, analyzeVars, engineVars,
                   convVars, bridgeVars, fixVars, promptVars, surfaceVars,
                   overlapVars, uiVars>>

NextRules == GetMergedRules

SpecRules == InitRules /\ [][NextRules]_vars

----------------------------------------------------------------------------
(* SpecPrompt: the rules of the system prompt that analyzeFile has the model
   client build, for every user list and workspace list. *)

\* The default catalog: ten rules, all of them enabled.
DEFAULT_RULES == [i \in 1..10 |-> [id |-> 100 + i, name |-> "default", enabled |-> TRUE]]

\* rules.filter(r => r.enabled)
EnabledOf(rules) == SelectSeq(rules, LAMBDA r : r.enabled)

\* The mutant hands the merged rules over as they are.
enabledRulesUnfiltered(rules) ==
    IF Len(rules) > 0 THEN rules ELSE EnabledOf(DEFAULT_RULES)

\* analyzeFile: the merged rules that are enabled, or the enabled rules of
\* the catalog when nothing was merged.
enabledRules(rules) ==
    IF Len(rules) > 0 THEN EnabledOf(rules) ELSE EnabledOf(DEFAULT_RULES)

\* analyze: customRules || DEFAULT_RULES.filter(r => r.enabled).  An array,
\* even an empty one, is truthy.
rulesOfAnalyze(rulesArgument) ==
    IF rulesArgument # Absent THEN rulesArgument[1] ELSE EnabledOf(DEFAULT_RULES)

\* buildAnalysisSystemPrompt: one line for each rule it is given, in order.
buildAnalysisSystemPrompt(rules) ==
    [i \in 1..Len(rules) |-> [id |-> rules[i].id, name |-> rules[i].name]]

\* analyzeFile from the merged rules to the system prompt of the request.
BuildPrompt ==
    /\ mergedRules # Absent
    /\ systemPrompt = Absent
    /\ systemPrompt' =
          Some(buildAnalysisSystemPrompt(rulesOfAnalyze(Some(enabledRules(mergedRules[1])))))
    /\ UNCHANGED <<ruleVars, filterVars, analyzeVars, engineVars, convVars, bridgeVars,
                   fixVars, surfaceVars, overlapVars, uiVars>>

NextPrompt == GetMergedRules \/ BuildPrompt

SpecPrompt == InitRules /\ [][NextPrompt]_vars

----------------------------------------------------------------------------
(* Claims on filterBySeverity (SpecFilter). *)

\* The ranks the specification gives the three severities.
ClaimRank(s) == CASE s = "error" -> 0 [] s = "warning" -> 1 [] s = "info" -> 2

KeptIndexes(A, t) == {i \in 1..Len(A) : ClaimRank(A[i].severity) <= ClaimRank(t)}

\* C1: for every threshold t of {error, warning, info} and every list A,
\* filterBySeverity(A, t) is exactly the anomalies of A whose rank is at most
\* rank(t), in their original order: as many as there are such positions, and
\* the k-th one returned is the anomaly at the k-th such position.
C1_FilterExact ==
    (fOut # Absent /\ fThreshold \in Severities) =>
        LET out == fOut[1]
            kept == KeptIndexes(fAnomalies, fThreshold)
        IN /\ Len(out) = Cardinality(kept)
           /\ \E f \in [1..Len(out) -> kept] :
                /\ \A j, k \in 1..Len(out) : j < k => f[j] < f[k]
                /\ \A k \in 1..Len(out) : out[k] = fAnomalies[f[k]]

\* A warning threshold has dropped an info anomaly and kept the warning
\* that follows it.
C1_Witness ==
    /\ fOut # Absent
    /\ fThreshold = "warning"
    /\ Len(fAnomalies) = 2
    /\ fAnomalies[1].severity = "info"
    /\ fAnomalies[2].severity = "warning"
    /\ fOut[1] = <<fAnomalies[2]>>

----------------------------------------------------------------------------
(* Claims on OpenAIService.analyze and parseAnomalies (SpecAnalyze). *)

Unparsable == {"invalid", "noarray"}

\* C7 as stated: content that is not parsable as the analysis JSON contract
\* (invalid JSON, or JSON without an anomalies array) makes analyze return an
\* empty list rather than throw.
C7_UnparsableReturnsEmpty ==
    (aOut # Pending /\ aClient /\ aResponse.kind \in Unparsable) =>
        aOut = Returned(<<>>)

\* C7 as amended: analyze returns an empty list without throwing when the
\* response carries no content; content that is not parsable as the analysis
\* JSON contract makes analyze throw, the parse error going to the caller.
C7_UnparsableThrows ==
    (aOut # Pending /\ aClient) =>
        /\ aResponse.kind = "empty" => aOut = Returned(<<>>)
        /\ aResponse.kind \in Unparsable => aOut.status = "thrown"

C7_Witness ==
    /\ aClient
    /\ aResponse.kind = "noarray"
    /\ aOut.status = "thrown"

\* C8: for a file of N lines and a response anomaly with
\* 1 <= startLine <= endLine <= N, the parsed anomaly has the 0-indexed range
\* start = startLine - 1, end = endLine - 1.
C8_ZeroIndexedRange ==
    aOut.status = "returned" =>
        \A i \in 1..Len(aOut.anomalies) :
            LET a == aResponse.anomalies[i]
            IN (1 <= a.startLine /\ a.startLine <= a.endLine /\ a.endLine <= aLines) =>
                /\ aOut.anomalies[i].start = a.startLine - 1
                /\ aOut.anomalies[i].end = a.endLine - 1

\* A two-line file and an anomaly on its second line.
C8_Witness ==
    /\ aOut.status = "returned"
    /\ aLines = 2
    /\ Len(aOut.anomalies) = 1
    /\ aResponse.anomalies[1].startLine = 2
    /\ aResponse.anomalies[1].endLine = 2
    /\ aOut.anomalies[1].start = 1
    /\ aOut.anomalies[1].end = 1

----------------------------------------------------------------------------
(* SpecCache: the analysis engine's per-file calls and its result cache. *)

\* Every file of the engine specifications has this many lines.
FileLines == MaxLines

ErrorOnLine1 == [type |-> "performance", severity |-> "error",
                 startLine |-> 1, endLine |-> 1]
InfoToTheEnd == [type |-> "typo", severity |-> "critical",
                 startLine |-> 1, endLine |-> MaxLines + 1]

\* What the remote call answers in the engine specifications.
EngineReplies ==
    {Response("rejected", <<>>), Response("empty", <<>>), Response("invalid", <<>>),
     Response("json", <<InfoToTheEnd, ErrorOnLine1>>)}

Thresholds == {"error", "info"}

\* An analyzeFile call in flight: where it is suspended and on which path.
\* calls is the bag of the calls in flight.
Call(pc, path) == [pc |-> pc, path |-> path]

InFlight(p) == \E call \in BagToSet(calls) : call.path = p

\* The mutant looks at the client alone.
isConfiguredByClient == client

\* OpenAIService.isConfigured
isConfigured == client /\ apiKey

\* CodeAnalyzer.getCachedResults(uri): analysisCache.get(uri.fsPath) || null
getCachedResults(p) == MapGet(analysisCache, p)

AnalysisResult(anomalies, files, timestamp) ==
    [anomalies |-> anomalies, analyzedFiles |-> files, timestamp |-> timestamp]

\* The loop of getCachedResults() over analysisCache.values(): the anomalies
\* and the analyzed files of the entries, pushed in order.
RECURSIVE CollectCached(_)
CollectCached(values) ==
    IF values = <<>> THEN [allAnomalies |-> <<>>, allFiles |-> <<>>]
    ELSE LET rest == CollectCached(Tail(values))
         IN [allAnomalies |-> Head(values).anomalies \o rest.allAnomalies,
             allFiles |-> Head(values).analyzedFiles \o rest.allFiles]

\* CodeAnalyzer.getCachedResults(): null when no anomaly was collected.
getAllCachedResults(map, time) ==
    LET all == CollectCached(MapValues(map))
    IN IF Len(all.allAnomalies) = 0 THEN Absent
       ELSE Some(AnalysisResult(all.allAnomalies, all.allFiles, time))

InitCache ==
    /\ apiKey \in BOOLEAN
    /\ client = apiKey
    /\ severityThreshold = "info"
    /\ analysisCache = <<>>
    /\ calls = EmptyBag
    /\ now = 0
    /\ ev = NoEvent
    /\ lastSuccess = [p \in Paths |-> Absent]
    /\ ScanIdle
    /\ FilterIdle
    /\ AnalyzeIdle
    /\ ConvIdle
    /\ RulesIdle
    /\ BridgeIdle
    /\ UiIdle
    /\ OverlapIdle
    /\ SurfaceIdle
    /\ PromptIdle
    /\ FixIdle

\* analyzeFile up to its first await: the guard on the credential, then the
\* request to open the document.
AnalyzeFileStartCore(p) ==
    /\ BagCardinality(calls) < MaxCalls
    /\ IF ~isConfigured
       THEN /\ UNCHANGED calls
            /\ ev' = Event("analyzeFile.notConfigured", p)
       ELSE /\ calls' = calls (+) SetToBag({Call("open", p)})
            /\ ev' = Event("analyzeFile", p)
    /\ UNCHANGED <<analysisCache, now, lastSuccess, configVars, scanVars, outsideCallers>>

AnalyzeFileStart(p) == AnalyzeFileStartCore(p) /\ UNCHANGED callerVars

\* openTextDocument rejects: analyzeFile throws.
DocumentFailedCore(call) ==
    /\ call.pc = "open"
    /\ calls' = calls (-) SetToBag({call})
    /\ ev' = Event("analyzeFile", call.path)
    /\ UNCHANGED <<analysisCache, now, lastSuccess, configVars, scanVars, outsideCallers>>

\* The mutant drops the cached entry of a file that cannot be read.
DocumentFailedEvicting(call) ==
    /\ call.pc = "open"
    /\ calls' = calls (-) SetToBag({call})
    /\ analysisCache' = MapDelete(analysisCache, call.path)
    /\ ev' = Event("analyzeFile", call.path)
    /\ UNCHANGED <<now, lastSuccess, configVars, scanVars, outsideEngine>>

DocumentFailed(call) == DocumentFailedCore(call) /\ UNCHANGED callerVars

\* The document opens; the related files and the merged rules are gathered
\* (they read the workspace only); analyze checks the client and sends the
\* request.  The client, once set, is never unset, so the check made here is
\* the check made when the request is sent.
DocumentOpenedCore(call) ==
    /\ call.pc = "open"
    /\ IF ~client
       THEN calls' = calls (-) SetToBag({call})
       ELSE calls' = (calls (-) SetToBag({call})) (+) SetToBag({Call("remote", call.path)})
    /\ ev' = Event("analyzeFile", call.path)
    /\ UNCHANGED <<analysisCache, now, lastSuccess, configVars, scanVars, outsideCallers>>

DocumentOpened(call) == DocumentOpenedCore(call) /\ UNCHANGED callerVars

\* The mutant stores the model's anomalies before the threshold is applied.
StoreResultUnfiltered(map, p, anomalies, filteredAnomalies, time) ==
    MapSet(map, p, AnalysisResult(anomalies, <<p>>, time))

\* this.analysisCache.set(uri.fsPath, {anomalies: filteredAnomalies, ...})
StoreResult(map, p, anomalies, filteredAnomalies, time) ==
    MapSet(map, p, AnalysisResult(filteredAnomalies, <<p>>, time))

\* The remote call answers: analyze parses or throws; on success analyzeFile
\* filters by the threshold read now, stores the entry and returns the list.
ModelRepliedCore(call, response) ==
    /\ call.pc = "remote"
    /\ LET p == call.path
           out == analyze(TRUE, response, p, FileLines, now)
           filteredAnomalies == filterBySeverity(out.anomalies, severityThreshold)
       IN IF out.status = "thrown"
          THEN /\ ev' = Event("analyzeFile", p)
               /\ UNCHANGED <<analysisCache, lastSuccess>>
          ELSE /\ analysisCache' =
                     StoreResult(analysisCache, p, out.anomalies, filteredAnomalies, now)
               /\ lastSuccess' = [lastSuccess EXCEPT ![p] = Some(filteredAnomalies)]
               /\ ev' = Event("analyzeFile.return", p)
    /\ calls' = calls (-) SetToBag({call})
    /\ UNCHANGED <<now, configVars, scanVars, outsideCallers>>

ModelReplied(call, response) == ModelRepliedCore(call, response) /\ UNCHANGED callerVars

\* The mutant evicts everything whatever the argument.
clearCacheEverything(map, uri) == <<>>

\* CodeAnalyzer.clearCache(uri?): Absent stands for the call without a uri.
clearCache(map, uri) == IF uri # Absent THEN MapDelete(map, uri[1]) ELSE <<>>

ClearCachePath(p) ==
    /\ analysisCache' = clearCache(analysisCache, Some(p))
    /\ lastSuccess' = [lastSuccess EXCEPT ![p] = Absent]
    /\ ev' = Evicted("clearCache", p, Len(analysisCache) - Len(analysisCache'))
    /\ UNCHANGED <<calls, now, configVars, scanVars, outsideEngine>>

ClearCacheAllCore ==
    /\ analysisCache' = clearCache(analysisCache, Absent)
    /\ lastSuccess' = [p \in Paths |-> Absent]
    /\ ev' = Evicted("clearCache", 0, Len(analysisCache) - Len(analysisCache'))
    /\ UNCHANGED <<calls, now, configVars, scanVars, outsideCallers>>

ClearCacheAll == ClearCacheAllCore /\ UNCHANGED callerVars

\* The credential is set or removed in the settings: ConfigManager reloads
\* its configuration and the listener of the extension calls refreshClient,
\* whose initializeClient makes a client only when there is a key.
SetApiKey(key) ==
    /\ apiKey # key
    /\ apiKey' = key
    /\ client' = (client \/ key)
    /\ ev' = Event("config", 0)
    /\ UNCHANGED <<severityThreshold, analysisCache, calls, now, lastSuccess,
                   scanVars, outsideEngine>>

SetThreshold(t) ==
    /\ severityThreshold # t
    /\ severityThreshold' = t
    /\ ev' = Event("config", 0)
    /\ UNCHANGED <<apiKey, client, analysisCache, calls, now, lastSuccess,
                   scanVars, outsideEngine>>

NextCache ==
    \/ \E p \in Paths : AnalyzeFileStart(p)
    \/ \E call \in BagToSet(calls) : DocumentFailed(call)
    \/ \E call \in BagToSet(calls) : DocumentOpened(call)
    \/ \E call \in BagToSet(calls), r \in EngineReplies : ModelReplied(call, r)
    \/ \E p \in Paths : ClearCachePath(p)
    \/ ClearCacheAll
    \/ \E key \in BOOLEAN : SetApiKey(key)
    \/ \E t \in Thresholds : SetThreshold(t)

SpecCache == InitCache /\ [][NextCache]_vars

----------------------------------------------------------------------------
(* SpecScan: CodeAnalyzer.analyzeRepository, one scan at a time. *)

\* scanLog entries: the file, whether its analyzeFile returned, and what.
Succeeded(p, anomalies) == [path |-> p, ok |-> TRUE, anomalies |-> anomalies]
Failed(p) == [path |-> p, ok |-> FALSE, anomalies |-> <<>>]

\* What findFiles and the reads of getFilesToAnalyze can come up with: any
\* files of the workspace, each once, in any order.
FileLists ==
    {f \in SeqsUpTo(Paths, MaxFiles) : \A i, j \in 1..Len(f) : i # j => f[i] # f[j]}

\* files.slice(0, maxFiles)
Slice(files, maxFiles) == SubSeq(files, 1, Min(Len(files), maxFiles))

\* The mutant gives up the scan at the first file that fails.
AfterFailureAbort(s) == [s EXCEPT !.i = Len(s.files), !.inner = "none"]

\* catch (error) { console.error(...) }, then i++
AfterFailure(s) == [s EXCEPT !.i = @ + 1, !.inner = "none"]

\* The mutant moves on past the next file as well.
AfterSuccessSkipNext(s, p, anomalies) ==
    [s EXCEPT !.allAnomalies = @ \o anomalies,
              !.analyzedFiles = Append(@, p),
              !.i = @ + 2,
              !.inner = "none"]

\* allAnomalies.push(...anomalies); analyzedFiles.push(file.uri.fsPath); i++
AfterSuccess(s, p, anomalies) ==
    [s EXCEPT !.allAnomalies = @ \o anomalies,
              !.analyzedFiles = Append(@, p),
              !.i = @ + 1,
              !.inner = "none"]

\* The loop from its test to the next await.  With no credential every
\* analyzeFile left throws at its guard and is caught, without an await that
\* lets anything else run, so the scan ends within this step; otherwise the
\* analyzeFile of file i asks for its document.  The result is the pair of
\* scan and scanLog.
RECURSIVE Proceed(_, _, _)
Proceed(s, log, configured) ==
    IF s.i >= Len(s.files) THEN <<[s EXCEPT !.pc = "done"], log>>
    ELSE IF ~configured
    THEN Proceed(AfterFailure(s), Append(log, Failed(s.files[s.i + 1])), configured)
    ELSE <<[s EXCEPT !.pc = "file", !.inner = "open"], log>>

InitScan ==
    /\ apiKey \in BOOLEAN
    /\ client = apiKey
    /\ severityThreshold = "info"
    /\ analysisCache = <<>>
    /\ calls = EmptyBag
    /\ now = 0
    /\ ev = NoEvent
    /\ lastSuccess = [p \in Paths |-> Absent]
    /\ ScanIdle
    /\ FilterIdle
    /\ AnalyzeIdle
    /\ ConvIdle
    /\ RulesIdle
    /\ BridgeIdle
    /\ UiIdle
    /\ OverlapIdle
    /\ SurfaceIdle
    /\ PromptIdle
    /\ FixIdle

\* analyzeRepository up to its first await: the guards on the credential and
\* on the workspace folder, then the enumeration of the files.
ScanStartCore(hasFolder) ==
    /\ scan.pc \in {"idle", "done"}
    /\ IF ~isConfigured \/ ~hasFolder
       THEN /\ scan' = NoScan
            /\ ev' = IF ~isConfigured
                     THEN Event("analyzeRepository.notConfigured", 0)
                     ELSE Event("analyzeRepository.noFolder", 0)
       ELSE /\ scan' = [NoScan EXCEPT !.pc = "enumerate"]
            /\ ev' = Event("analyzeRepository.start", 0)
    /\ scanLog' = <<>>
    /\ UNCHANGED <<analysisCache, calls, now, lastSuccess, configVars, outsideCallers>>

ScanStart(hasFolder) == ScanStartCore(hasFolder) /\ UNCHANGED callerVars

\* getFilesToAnalyze answers; the files are cut to maxFilesToAnalyze and the
\* loop starts.
ScanEnumeratedCore(files, maxFiles) ==
    /\ scan.pc = "enumerate"
    /\ LET next == Proceed([scan EXCEPT !.files = Slice(files, maxFiles)], <<>>,
                           isConfigured)
       IN scan' = next[1] /\ scanLog' = next[2]
    /\ ev' = Event("analyzeRepository", 0)
    /\ UNCHANGED <<analysisCache, calls, now, lastSuccess, configVars, outsideCallers>>

ScanEnumerated(files, maxFiles) == ScanEnumeratedCore(files, maxFiles) /\ UNCHANGED callerVars

\* The analyzeFile of the current file: openTextDocument rejects.
ScanDocumentFailedCore ==
    /\ scan.pc = "file" /\ scan.inner = "open"
    /\ LET p == scan.files[scan.i + 1]
           next == Proceed(AfterFailure(scan), Append(scanLog, Failed(p)), isConfigured)
       IN scan' = next[1] /\ scanLog' = next[2]
    /\ ev' = Event("analyzeRepository", 0)
    /\ UNCHANGED <<analysisCache, calls, now, lastSuccess, configVars, outsideCallers>>

ScanDocumentFailed == ScanDocumentFailedCore /\ UNCHANGED callerVars

\* The analyzeFile of the current file: the document opens and the request
\* is sent (or analyze finds no client and throws).
ScanDocumentOpenedCore ==
    /\ scan.pc = "file" /\ scan.inner = "open"
    /\ LET p == scan.files[scan.i + 1]
           next == Proceed(AfterFailure(scan), Append(scanLog, Failed(p)), isConfigured)
       IN IF ~client
          THEN scan' = next[1] /\ scanLog' = next[2]
          ELSE scan' = [scan EXCEPT !.inner = "remote"] /\ UNCHANGED scanLog
    /\ ev' = Event("analyzeRepository", 0)
    /\ UNCHANGED <<analysisCache, calls, now, lastSuccess, configVars, outsideCallers>>

ScanDocumentOpened == ScanDocumentOpenedCore /\ UNCHANGED callerVars

\* The analyzeFile of the current file: the remote call answers.
ScanModelRepliedCore(response) ==
    /\ scan.pc = "file" /\ scan.inner = "remote"
    /\ LET p == scan.files[scan.i + 1]
           out == analyze(TRUE, response, p, FileLines, now)
           filteredAnomalies == filterBySeverity(out.anomalies, severityThreshold)
           caught == Proceed(AfterFailure(scan), Append(scanLog, Failed(p)), isConfigured)
           pushed == Proceed(AfterSuccess(scan, p, filteredAnomalies),
                             Append(scanLog, Succeeded(p, filteredAnomalies)),
                             isConfigured)
       IN IF out.status = "thrown"
          THEN /\ scan' = caught[1] /\ scanLog' = caught[2]
               /\ UNCHANGED <<analysisCache, lastSuccess>>
          ELSE /\ scan' = pushed[1] /\ scanLog' = pushed[2]
               /\ analysisCache' =
                     StoreResult(analysisCache, p, out.anomalies, filteredAnomalies, now)
               /\ lastSuccess' = [lastSuccess EXCEPT ![p] = Some(filteredAnomalies)]
    /\ ev' = Event("analyzeRepository", 0)
    /\ UNCHANGED <<calls, now, configVars, outsideCallers>>

ScanModelReplied(response) == ScanModelRepliedCore(response) /\ UNCHANGED callerVars

NextScan ==
    \/ \E hasFolder \in BOOLEAN : ScanStart(hasFolder)
    \/ \E files \in FileLists, maxFiles \in 0..MaxFiles : ScanEnumerated(files, maxFiles)
    \/ ScanDocumentFailed
    \/ ScanDocumentOpened
    \/ \E r \in EngineReplies : ScanModelReplied(r)
    \/ ClearCacheAll
    \/ \E key \in BOOLEAN : SetApiKey(key)
    \/ \E t \in Thresholds : SetThreshold(t)

SpecScan == InitScan /\ [][NextScan]_vars

----------------------------------------------------------------------------
(* SpecKeep: the per-file calls and the cache under one severity threshold,
   with every way an analyzeFile can fail. *)

NextKeep ==
    \/ \E p \in Paths : AnalyzeFileStart(p)
    \/ \E call \in BagToSet(calls) : DocumentFailed(call)
    \/ \E call \in BagToSet(calls) : DocumentOpened(call)
    \/ \E call \in BagToSet(calls), r \in EngineReplies : ModelReplied(call, r)
    \/ \E p \in Paths : ClearCachePath(p)
    \/ ClearCacheAll
    \/ \E key \in BOOLEAN : SetApiKey(key)

SpecKeep == InitCache /\ [][NextKeep]_vars

----------------------------------------------------------------------------
(* SpecGuard: the two entry points of the engine and the credential, in a
   workspace where the scan finds no file to analyze. *)

GuardReplies == {Response("rejected", <<>>), Response("json", <<ErrorOnLine1>>)}

NextGuard ==
    \/ \E key \in BOOLEAN : SetApiKey(key)
    \/ \E p \in Paths : AnalyzeFileStart(p)
    \/ \E call \in BagToSet(calls) : DocumentOpened(call)
    \/ \E call \in BagToSet(calls), r \in GuardReplies : ModelReplied(call, r)
    \/ \E hasFolder \in BOOLEAN : ScanStart(hasFolder)
    \/ \E maxFiles \in 0..MaxFiles : ScanEnumerated(<<>>, maxFiles)

SpecGuard == InitCache /\ [][NextGuard]_vars

----------------------------------------------------------------------------
(* SpecBridge: the sidebar takes sendMessage commands from its webview and
   answers each through _handleChatMessage, over one anomaly, while the
   anomaly list is replaced and the anomaly is selected.  Nothing in the
   extension calls deleteConversation or clearAllConversations, so the
   conversation of a selected anomaly stays. *)

\* The commands _handleChatMessage takes past its guards in a behavior.
MaxCommands == 2

\* No conversation outgrows this: the opening message and two messages for
\* each command.
BridgeMsgs == 1 + 2 * MaxCommands

\* What the webview sends as the content of a sendMessage command.
BridgeContents == UserContents \cup {" "}

\* content?.trim() is empty.
IsBlank(content) == content \in {"", " "}

\* The messages _handleChatMessage posts to the webview.
ChatLoading(loading) == [type |-> "chatLoading", payload |-> <<loading>>]
ChatError == [type |-> "chatError", payload |-> <<>>]
ConversationUpdated(anomalyId) ==
    [type |-> "conversationUpdated", payload |-> <<anomalyId>>]

\* The mutant takes the first anomaly of the list, whatever its id.
FindAnomalyFirst(anomalies, anomalyId) ==
    IF anomalies = <<>> THEN Absent ELSE Some(anomalies[1])

\* this._anomalies.find(a => a.id === anomalyId)
FindAnomaly(anomalies, anomalyId) ==
    LET found == SelectSeq(anomalies, LAMBDA a : a.id = anomalyId)
    IN IF found = <<>> THEN Absent ELSE Some(found[1])

\* A _handleChatMessage call past its guards: where it is suspended ("open"
\* at openTextDocument, "send" at sendMessage, "done" once it has returned),
\* its locals, the sendMessage call it awaits, and what it has posted.
Command(pc, content, anomaly, send, posted) ==
    [pc |-> pc, content |-> content, anomaly |-> anomaly, send |-> send,
     posted |-> posted]

\* The catch block and the finally block.
PostCaughtStillLoading(posted) == posted \o <<ChatError>>

PostCaught(posted) == posted \o <<ChatError, ChatLoading(FALSE)>>

\* The end of the try block and the finally block.
PostReturned(posted, anomalyId) ==
    posted \o <<ConversationUpdated(anomalyId), ChatLoading(FALSE)>>

Finish(command, posted) ==
    [command EXCEPT !.pc = "done", !.send = Absent, !.posted = posted]

InitBridge == InitConv

\* updateAnomalies, and the assignments the analysis commands make.
UpdateAnomaliesCore(anomalies) ==
    /\ sidebarAnomalies # anomalies
    /\ sidebarAnomalies' = anomalies
    /\ ev' = Event("updateAnomalies", Len(anomalies))
    /\ UNCHANGED <<currentAnomalyId, commands, convVars, now, outsideConv>>

\* _selectAnomaly up to its await of startConversation, which has stored
\* the conversation by then.
SelectAnomalyCore(anomalyId) ==
    LET anomaly == FindAnomaly(sidebarAnomalies, anomalyId)
    IN IF anomaly = Absent
       THEN /\ ev' = Event("selectAnomaly.ignored", anomalyId)
            /\ UNCHANGED <<sidebarAnomalies, currentAnomalyId, commands, convVars,
                           now, outsideConv>>
       ELSE /\ currentAnomalyId' = Some(anomalyId)
            /\ StartConversationCore(anomaly[1])
            /\ UNCHANGED <<sidebarAnomalies, commands>>

\* _handleChatMessage up to its await of openTextDocument.
HandleChatMessageCore(content) ==
    /\ Len(commands) < MaxCommands
    /\ LET anomaly == IF currentAnomalyId = Absent THEN Absent
                      ELSE FindAnomaly(sidebarAnomalies, currentAnomalyId[1])
       IN IF currentAnomalyId = Absent \/ IsBlank(content) \/ anomaly = Absent
          THEN /\ ev' = Event("handleChatMessage.ignored", content)
               /\ UNCHANGED commands
          ELSE /\ commands' = Append(commands,
                     Command("open", content, anomaly[1], Absent,
                             <<ChatLoading(TRUE)>>))
               /\ ev' = Event("handleChatMessage", content)
    /\ UNCHANGED <<sidebarAnomalies, currentAnomalyId, convVars, now, outsideConv>>

\* openTextDocument rejects: the catch block and the finally block run.
BridgeDocumentFailedCore(k) ==
    /\ commands[k].pc = "open"
    /\ commands' = [commands EXCEPT ![k] = Finish(@, PostCaught(@.posted))]
    /\ ev' = Event("handleChatMessage.noDocument", k)
    /\ UNCHANGED <<sidebarAnomalies, currentAnomalyId, convVars, now, outsideConv>>

\* The document opens and sendMessage is called for the anomaly that is
\* current by now: it throws at once when the conversation is gone, and
\* otherwise runs up to its await of the chat call.
BridgeDocumentOpenedCore(k) ==
    LET anomalyId == currentAnomalyId[1]
        conversation == SendTarget(conversations, anomalyId)
    IN /\ commands[k].pc = "open"
       /\ SendStartWithinCore(anomalyId, commands[k].content, MaxCommands, BridgeMsgs)
       /\ commands' =
            [commands EXCEPT ![k] =
               IF conversation = Absent
               THEN Finish(@, PostCaught(@.posted))
               ELSE [@ EXCEPT !.pc = "send",
                              !.send = Some(Send("chat", conversation[1], anomalyId,
                                                 Len(heap[conversation[1]].messages) + 1))]]
       /\ UNCHANGED <<sidebarAnomalies, currentAnomalyId>>

\* The chat call of the command's sendMessage resolves.
BridgeChatRepliedCore(k, response) ==
    /\ commands[k].pc = "send"
    /\ commands[k].send[1].pc = "chat"
    /\ ChatRepliedCore(commands[k].send[1], response)
    /\ commands' = [commands EXCEPT ![k].send =
                      Some(Send("save", @[1].oid, @[1].anomalyId, @[1].userAt))]
    /\ UNCHANGED <<sidebarAnomalies, currentAnomalyId>>

\* The chat call rejects, sendMessage rejects with it, and the catch block
\* and the finally block run.
BridgeChatFailedCore(k) ==
    /\ commands[k].pc = "send"
    /\ commands[k].send[1].pc = "chat"
    /\ ChatFailedCore(commands[k].send[1])
    /\ commands' = [commands EXCEPT ![k] = Finish(@, PostCaught(@.posted))]
    /\ UNCHANGED <<sidebarAnomalies, currentAnomalyId>>

\* sendMessage returns: the rest of the try block and the finally block run.
BridgeSendSavedCore(k) ==
    /\ commands[k].pc = "send"
    /\ commands[k].send[1].pc = "save"
    /\ SendSavedCore(commands[k].send[1])
    /\ commands' = [commands EXCEPT ![k] = Finish(@, PostReturned(@.posted, currentAnomalyId[1]))]
    /\ UNCHANGED <<sidebarAnomalies, currentAnomalyId>>

\* The operations of the sidebar while nothing is posted to a webview.
UpdateAnomalies(anomalies) == UpdateAnomaliesCore(anomalies) /\ UNCHANGED panelVars
SelectAnomaly(anomalyId) == SelectAnomalyCore(anomalyId) /\ UNCHANGED panelVars
HandleChatMessage(content) == HandleChatMessageCore(content) /\ UNCHANGED panelVars
BridgeDocumentFailed(k) == BridgeDocumentFailedCore(k) /\ UNCHANGED panelVars
BridgeDocumentOpened(k) == BridgeDocumentOpenedCore(k) /\ UNCHANGED panelVars
BridgeChatReplied(k, response) == BridgeChatRepliedCore(k, response) /\ UNCHANGED panelVars
BridgeChatFailed(k) == BridgeChatFailedCore(k) /\ UNCHANGED panelVars
BridgeSendSaved(k) == BridgeSendSavedCore(k) /\ UNCHANGED panelVars

\* The next step of command k, whichever way what it awaits settles.
Settle(k) ==
    \/ BridgeDocumentFailed(k)
    \/ BridgeDocumentOpened(k)
    \/ \E response \in ChatReplies : BridgeChatReplied(k, response)
    \/ BridgeChatFailed(k)
    \/ BridgeSendSaved(k)

NextBridge ==
    \/ \E anomalies \in {<<>>, <<RaceAnomaly>>} : UpdateAnomalies(anomalies)
    \/ \E anomalyId \in AnomalyIds : SelectAnomaly(anomalyId)
    \/ \E content \in BridgeContents : HandleChatMessage(content)
    \/ \E k \in DOMAIN commands : BridgeDocumentFailed(k)
    \/ \E k \in DOMAIN commands : BridgeDocumentOpened(k)
    \/ \E k \in DOMAIN commands, response \in ChatReplies :
          BridgeChatReplied(k, response)
    \/ \E k \in DOMAIN commands : BridgeChatFailed(k)
    \/ \E k \in DOMAIN commands : BridgeSendSaved(k)

\* What a command awaits settles in the end: the document opens or not, the
\* remote call answers or fails, the save completes.
FairBridge == \A k \in 1..MaxCommands : WF_vars(k \in DOMAIN commands /\ Settle(k))

SpecBridge == InitBridge /\ [][NextBridge]_vars /\ FairBridge

----------------------------------------------------------------------------
(* SpecPanel: the sidebar with the chat panel of its webview, the credential
   set.  What the sidebar posts reaches the App component later, one message
   at a time and in order; what the App posts is handled by the sidebar in
   the step that posts it.  The webview is made anew whenever its view is
   resolved again.
   SpecQuiet: the sidebar taking the selectAnomaly, sendMessage and applyFix
   commands with whatever anomaly id and content they carry. *)

\* The sendMessage and applyFix commands SpecQuiet lets past their guards:
\* those of applyFix count until they end.
MaxTaken == 1

\* The messages posted and not yet handled by the webview.
MaxOutbox == 2

\* The anomaly lists the sidebar is given.
PanelLists == {<<>>, <<RaceAnomaly>>}

\* The other messages the sidebar posts, without their payloads.
AnomaliesUpdated == [type |-> "anomaliesUpdated", payload |-> <<>>]
AnalysisStarted == [type |-> "analysisStarted", payload |-> <<>>]
AnalysisComplete == [type |-> "analysisComplete", payload |-> <<>>]
AnalysisError == [type |-> "analysisError", payload |-> <<>>]
InitialState == [type |-> "initialState", payload |-> <<>>]

\* App.handleMessage, on the state the chat panel depends on: the other
\* cases set the anomaly list, isAnalyzing, isConfigured and error.
handleMessage(state, message) ==
    CASE message.type = "conversationUpdated" ->
           [state EXCEPT !.conversation = Some(message.payload[1])]
      [] message.type = "chatLoading" ->
           [state EXCEPT !.isChatLoading = message.payload[1]]
      [] message.type = "chatError" -> [state EXCEPT !.isChatLoading = FALSE]
      [] OTHER -> state

\* An _applyFix call past its guard: where it is suspended ("open" at
\* openTextDocument, "suggest" at suggestFix, "apply" at applyEdit,
\* "analyze" at analyzeFile) and the anomaly it found.
FixCommand(pc, anomaly) == [pc |-> pc, anomaly |-> anomaly]

\* The fields of the anomaly suggestFix copies into the edit.
PanelLocation(anomaly) == [id |-> anomaly.id, file |-> 1, start |-> 0, end |-> 0]

\* _postMessage, for the messages of one step.
Post(messages) ==
    /\ Len(outbox) + Len(messages) <= MaxOutbox
    /\ outbox' = outbox \o messages

\* What command k posts in this step.
PostedBy(k) ==
    SubSeq(commands'[k].posted, Len(commands[k].posted) + 1, Len(commands'[k].posted))

RemoveAt(seq, k) == SubSeq(seq, 1, k - 1) \o SubSeq(seq, k + 1, Len(seq))

InitPanel ==
    /\ conversations = <<>>
    /\ heap = <<>>
    /\ globalState = <<>>
    /\ sends = EmptyBag
    /\ now = 0
    /\ ev = NoEvent
    /\ apiKey = TRUE
    /\ client = TRUE
    /\ severityThreshold = "info"
    /\ analysisCache = <<>>
    /\ calls = EmptyBag
    /\ lastSuccess = [p \in Paths |-> Absent]
    /\ ScanIdle
    /\ FilterIdle
    /\ AnalyzeIdle
    /\ RulesIdle
    /\ BridgeIdle
    /\ UiIdle
    /\ OverlapIdle
    /\ SurfaceIdle
    /\ PromptIdle
    /\ FixIdle

\* resolveWebviewView: the App mounts with its initial state, what was
\* posted to the view before is not handled, and _sendInitialState takes the
\* anomalies of the cache, when it has any, and posts initialState.
ResolveWebviewView ==
    LET cachedResults == getAllCachedResults(analysisCache, now)
    IN /\ webview' = WebviewState(FALSE, Absent)
       /\ sidebarAnomalies' = IF cachedResults = Absent THEN sidebarAnomalies
                              ELSE cachedResults[1].anomalies
       /\ outbox' = <<InitialState>>
       /\ ev' = Event("resolveWebviewView", 0)
       /\ UNCHANGED <<currentAnomalyId, commands, fixes, convVars, now, outsideConv>>

\* The App handles the oldest message posted to it.
Deliver ==
    /\ outbox # <<>>
    /\ webview' = handleMessage(webview, Head(outbox))
    /\ outbox' = Tail(outbox)
    /\ ev' = Event("handleMessage", Head(outbox).type)
    /\ UNCHANGED <<sidebarAnomalies, currentAnomalyId, commands, fixes, convVars, now,
                   outsideConv>>

\* updateAnomalies, called by the commands of the extension.
PanelUpdateAnomalies(anomalies) ==
    /\ UpdateAnomaliesCore(anomalies)
    /\ Post(<<AnomaliesUpdated>>)
    /\ UNCHANGED <<fixes, webview>>

\* _selectAnomaly, for an entry of the list of the webview or for the
\* startConversation command: conversationUpdated is posted once the
\* document is shown, and not at all when that fails.
PanelSelectAnomaly(anomalyId, shown) ==
    /\ SelectAnomalyCore(anomalyId)
    /\ Post(IF ev'.op = "startConversation" /\ shown
            THEN <<ConversationUpdated(anomalyId)>> ELSE <<>>)
    /\ UNCHANGED <<fixes, webview>>

\* _handleChatMessage up to its await of openTextDocument, for whatever
\* content the command carries.
PanelChatMessage(content) ==
    /\ HandleChatMessageCore(content)
    /\ Post(IF Len(commands') > Len(commands) THEN <<ChatLoading(TRUE)>> ELSE <<>>)
    /\ UNCHANGED <<fixes, webview>>

\* ChatPanel.handleSubmit, App.handleSendMessage and _handleChatMessage up
\* to its await of openTextDocument.
PanelSubmit(content) ==
    /\ webview.conversation # Absent
    /\ ~webview.isChatLoading
    /\ ~IsBlank(content)
    /\ PanelChatMessage(content)

\* A step of command k, and the messages it posts.
PanelDocumentFailed(k) ==
    BridgeDocumentFailedCore(k) /\ Post(PostedBy(k)) /\ UNCHANGED <<fixes, webview>>

PanelDocumentOpened(k) ==
    BridgeDocumentOpenedCore(k) /\ Post(PostedBy(k)) /\ UNCHANGED <<fixes, webview>>

PanelChatReplied(k, response) ==
    /\ BridgeChatRepliedCore(k, response)
    /\ Post(PostedBy(k))
    /\ UNCHANGED <<fixes, webview>>

PanelChatFailed(k) ==
    BridgeChatFailedCore(k) /\ Post(PostedBy(k)) /\ UNCHANGED <<fixes, webview>>

PanelSendSaved(k) ==
    BridgeSendSavedCore(k) /\ Post(PostedBy(k)) /\ UNCHANGED <<fixes, webview>>

QuietChatMessage(content) ==
    /\ PanelChatMessage(content)
    /\ Len(commands') > Len(commands) => Len(commands) + Len(fixes) < MaxTaken

\* _applyFix up to its await of openTextDocument.
ApplyFix(anomalyId) ==
    /\ LET anomaly == FindAnomaly(sidebarAnomalies, anomalyId)
       IN IF anomaly = Absent
          THEN /\ ev' = Event("applyFix.ignored", anomalyId)
               /\ UNCHANGED fixes
          ELSE /\ Len(commands) + Len(fixes) < MaxTaken
               /\ fixes' = Append(fixes, FixCommand("open", anomaly[1]))
               /\ ev' = Event("applyFix", anomalyId)
    /\ UNCHANGED <<sidebarAnomalies, currentAnomalyId, commands, outbox, webview,
                   convVars, now, outsideConv>>

\* openTextDocument settles: suggestFix is called, or the catch block shows
\* the error.
FixDocumentSettled(k, opened) ==
    /\ fixes[k].pc = "open"
    /\ fixes' = IF opened THEN [fixes EXCEPT ![k].pc = "suggest"] ELSE RemoveAt(fixes, k)
    /\ ev' = Event(IF opened THEN "applyFix.suggestFix" ELSE "applyFix.noDocument", k)
    /\ UNCHANGED <<sidebarAnomalies, currentAnomalyId, commands, outbox, webview,
                   convVars, now, outsideConv>>

\* suggestFix settles: without a fix a warning is shown, or the error when
\* it threw; with one the edit is built and applyEdit is called.
FixSuggested(k, response) ==
    LET result == suggestFix(client, response, PanelLocation(fixes[k].anomaly))
    IN /\ fixes[k].pc = "suggest"
       /\ fixes' = IF result.status = "returned" /\ result.fix # Absent
                   THEN [fixes EXCEPT ![k].pc = "apply"] ELSE RemoveAt(fixes, k)
       /\ ev' = Event(IF result.status = "thrown" THEN "applyFix.failed"
                      ELSE IF result.fix = Absent THEN "applyFix.noFix"
                      ELSE "applyFix.applyEdit", k)
       /\ UNCHANGED <<sidebarAnomalies, currentAnomalyId, commands, outbox, webview,
                      convVars, now, outsideConv>>

\* applyEdit settles: on success _analyzeCurrentFile runs up to its await
\* of analyzeFile, when there is an active editor.
FixEdited(k, success, hasEditor) ==
    /\ fixes[k].pc = "apply"
    /\ IF success /\ hasEditor
       THEN /\ fixes' = [fixes EXCEPT ![k].pc = "analyze"]
            /\ Post(<<AnalysisStarted>>)
            /\ ev' = Event("applyFix.analyzeFile", k)
       ELSE /\ fixes' = RemoveAt(fixes, k)
            /\ UNCHANGED outbox
            /\ ev' = Event(IF success THEN "applyFix.noEditor" ELSE "applyFix.notApplied", k)
    /\ UNCHANGED <<sidebarAnomalies, currentAnomalyId, commands, webview, convVars, now,
                   outsideConv>>

\* analyzeFile settles: its anomalies replace the list, or the error is
\* posted.
FixAnalyzed(k, result) ==
    /\ fixes[k].pc = "analyze"
    /\ fixes' = RemoveAt(fixes, k)
    /\ IF result = Absent
       THEN /\ Post(<<AnalysisError>>)
            /\ UNCHANGED sidebarAnomalies
            /\ ev' = Event("applyFix.analysisError", k)
       ELSE /\ Post(<<AnalysisComplete>>)
            /\ sidebarAnomalies' = result[1]
            /\ ev' = Event("applyFix.analysisComplete", k)
    /\ UNCHANGED <<currentAnomalyId, commands, webview, convVars, now, outsideConv>>

NextPanel ==
    \/ ResolveWebviewView
    \/ Deliver
    \/ \E anomalies \in PanelLists : PanelUpdateAnomalies(anomalies)
    \/ \E anomalyId \in AnomalyIds, shown \in BOOLEAN : PanelSelectAnomaly(anomalyId, shown)
    \/ \E content \in UserContents : PanelSubmit(content)
    \/ \E k \in DOMAIN commands : PanelDocumentFailed(k)
    \/ \E k \in DOMAIN commands : PanelDocumentOpened(k)
    \/ \E k \in DOMAIN commands, response \in ChatReplies : PanelChatReplied(k, response)
    \/ \E k \in DOMAIN commands : PanelChatFailed(k)
    \/ \E k \in DOMAIN commands : PanelSendSaved(k)

SpecPanel == InitPanel /\ [][NextPanel]_vars

NextQuiet ==
    \/ Deliver
    \/ \E anomalies \in PanelLists : PanelUpdateAnomalies(anomalies)
    \/ \E anomalyId \in AnomalyIds, shown \in BOOLEAN : PanelSelectAnomaly(anomalyId, shown)
    \/ \E content \in BridgeContents : QuietChatMessage(content)
    \/ \E k \in DOMAIN commands : PanelDocumentFailed(k)
    \/ \E k \in DOMAIN commands : PanelDocumentOpened(k)
    \/ \E k \in DOMAIN commands, response \in ChatReplies : PanelChatReplied(k, response)
    \/ \E k \in DOMAIN commands : PanelChatFailed(k)
    \/ \E k \in DOMAIN commands : PanelSendSaved(k)
    \/ \E anomalyId \in AnomalyIds : ApplyFix(anomalyId)
    \/ \E k \in DOMAIN fixes, opened \in BOOLEAN : FixDocumentSettled(k, opened)
    \/ \E k \in DOMAIN fixes, response \in FixResponses : FixSuggested(k, response)
    \/ \E k \in DOMAIN fixes, success \in BOOLEAN, hasEditor \in BOOLEAN :
          FixEdited(k, success, hasEditor)
    \/ \E k \in DOMAIN fixes, result \in {Absent} \cup {Some(l) : l \in PanelLists} :
          FixAnalyzed(k, result)

SpecQuiet == InitPanel /\ [][NextQuiet]_vars

----------------------------------------------------------------------------
(* SpecClient: the three operations of OpenAIService called directly, while
   the credential is set and removed in the settings. *)

ClientOps == {"analyze", "chat", "suggestFix"}

\* A request sent to the remote model by one of the operations and not yet
\* settled.  In this specification calls is the bag of these requests.
Request(op) == [pc |-> "create", op |-> op]

\* analyze, chat or suggestFix is called: each throws when there is no client
\* and otherwise awaits chat.completions.create.
ClientInvoke(op) ==
    /\ BagCardinality(calls) < MaxCalls
    /\ IF ~client
       THEN /\ UNCHANGED calls
            /\ ev' = Event("client.notConfigured", op)
       ELSE /\ calls' = calls (+) SetToBag({Request(op)})
            /\ ev' = Event("client.request", op)
    /\ UNCHANGED <<analysisCache, now, lastSuccess, configVars, scanVars, outsideEngine>>

\* How a request settles: a response with content, a response without
\* content, or a rejection.
Settlements == {"content", "empty", "rejected"}

\* The remote call settles: the operation returns what it made of the
\* content, returns its value for no content (no anomalies, the apology of
\* chat, no fix), or logs the rejection and throws it again.
ClientSettle(request, settlement) ==
    /\ request.pc = "create"
    /\ calls' = calls (-) SetToBag({request})
    /\ ev' = EventOut("client.settled", request.op, <<settlement>>)
    /\ UNCHANGED <<analysisCache, now, lastSuccess, configVars, scanVars, outsideEngine>>

NextClient ==
    \/ \E key \in BOOLEAN : SetApiKey(key)
    \/ \E op \in ClientOps : ClientInvoke(op)
    \/ \E request \in BagToSet(calls), settlement \in Settlements :
          ClientSettle(request, settlement)

SpecClient == InitCache /\ [][NextClient]_vars

----------------------------------------------------------------------------
(* Claims on the result cache (SpecCache). *)

\* C2: whenever no analyzeFile call for path p is in flight, getCachedResults(p)
\* holds exactly the filtered list that the most recent successful
\* analyzeFile(p) returned (and nothing if there was none since p was last
\* cleared); the cache has at most one entry per path.
C2_CacheIsLastSuccess ==
    /\ \A p \in Paths :
        ~InFlight(p) =>
            IF lastSuccess[p] = Absent
            THEN getCachedResults(p) = Absent
            ELSE /\ getCachedResults(p) # Absent
                 /\ getCachedResults(p)[1].anomalies = lastSuccess[p][1]
    /\ \A i, j \in 1..Len(analysisCache) :
        i # j => analysisCache[i][1] # analysisCache[j][1]

\* Path 1 was cached before path 2 and has just been analyzed again under
\* the error threshold: its entry was overwritten where it stood.
C2_Witness ==
    /\ ev = Event("analyzeFile.return", 1)
    /\ ~InFlight(1)
    /\ Len(analysisCache) = 2
    /\ analysisCache[1][1] = 1
    /\ severityThreshold = "error"
    /\ Len(analysisCache[1][2].anomalies) = 1
    /\ lastSuccess[1] = Some(analysisCache[1][2].anomalies)

\* C3: clearCache(p) removes the entry of p and leaves the entry of every
\* other path as it was, so that getCachedResults(p) is absent right after;
\* clearCache() without a path removes every entry.
C3_ClearCacheFrame ==
    [][ev'.op = "clearCache" =>
        IF ev'.arg # 0
        THEN /\ MapGet(analysisCache', ev'.arg) = Absent
             /\ \A q \in Paths \ {ev'.arg} :
                    MapGet(analysisCache', q) = MapGet(analysisCache, q)
        ELSE analysisCache' = <<>>]_vars

\* clearCache(1) has evicted the entry of path 1 and the entry of path 2,
\* with its anomalies, is still there.
C3_Witness ==
    /\ ev = Evicted("clearCache", 1, 1)
    /\ getCachedResults(1) = Absent
    /\ getCachedResults(2) # Absent
    /\ getCachedResults(2)[1].anomalies # <<>>

----------------------------------------------------------------------------
(* Claims on the repository scan (SpecScan). *)

RECURSIVE Flatten(_)
Flatten(lists) == IF lists = <<>> THEN <<>> ELSE Head(lists) \o Flatten(Tail(lists))

SucceededEntries == SelectSeq(scanLog, LAMBDA e : e.ok)

\* C6: a scan ends having gone through every file to process, whichever of
\* them failed; its anomalies are exactly those the analyses that succeeded
\* returned, and analyzedFiles is exactly the paths of the files that
\* succeeded, none of those that failed.
C6_ScanToleratesFailures ==
    scan.pc = "done" =>
        /\ Len(scanLog) = Len(scan.files)
        /\ \A k \in 1..Len(scanLog) : scanLog[k].path = scan.files[k]
        /\ scan.analyzedFiles =
               [k \in 1..Len(SucceededEntries) |-> SucceededEntries[k].path]
        /\ scan.allAnomalies =
               Flatten([k \in 1..Len(SucceededEntries) |-> SucceededEntries[k].anomalies])
        /\ \A k \in 1..Len(scanLog) :
               ~scanLog[k].ok =>
                   \A j \in 1..Len(scan.analyzedFiles) :
                       scan.analyzedFiles[j] # scanLog[k].path

\* A scan of two files has ended: the first failed, the second succeeded
\* with anomalies.
C6_Witness ==
    /\ scan.pc = "done"
    /\ Len(scan.files) = 2
    /\ ~scanLog[1].ok
    /\ scanLog[2].ok
    /\ scan.analyzedFiles = <<scan.files[2]>>
    /\ scan.allAnomalies # <<>>

----------------------------------------------------------------------------
(* Claims on the rule merge (SpecRules). *)

IdsOf(rules) == {rules[i].id : i \in 1..Len(rules)}

\* The last rule of the list with this id: the one a later set leaves.
LastWithId(rules, id) ==
    rules[CHOOSE i \in 1..Len(rules) :
            /\ rules[i].id = id
            /\ \A j \in (i + 1)..Len(rules) : rules[j].id # id]

\* C10: getMergedRules merges the workspace's and the user's rules by id:
\* each id appears at most once, every id of either list appears, and for an
\* id in both lists the rule returned is the user's rule with all its
\* fields, not the workspace's.
C10_UserRulesWin ==
    mergedRules # Absent =>
        LET merged == mergedRules[1]
            ws == workspaceRulesOf(workspaceConfig)
        IN /\ \A i, j \in 1..Len(merged) : i # j => merged[i].id # merged[j].id
           /\ IdsOf(merged) = IdsOf(ws) \cup IdsOf(customRules)
           /\ \A i \in 1..Len(merged) :
                IF merged[i].id \in IdsOf(customRules)
                THEN merged[i] = LastWithId(customRules, merged[i].id)
                ELSE merged[i] = LastWithId(ws, merged[i].id)

\* The workspace and the user both have rule 1, with different fields, and
\* the workspace alone has rule 2.
C10_Witness ==
    /\ mergedRules # Absent
    /\ workspaceRulesOf(workspaceConfig) =
          <<[id |-> 1, name |-> "lax", enabled |-> FALSE],
            [id |-> 2, name |-> "lax", enabled |-> FALSE]>>
    /\ customRules = <<[id |-> 1, name |-> "strict", enabled |-> TRUE]>>
    /\ mergedRules[1] = <<[id |-> 1, name |-> "strict", enabled |-> TRUE],
                          [id |-> 2, name |-> "lax", enabled |-> FALSE]>>

----------------------------------------------------------------------------
(* Claims on the conversation store (SpecConv). *)

Openings(messages) ==
    {i \in 1..Len(messages) : messages[i].content[1] = "opening"}

EntriesFor(map, anomalyId) == {i \in 1..Len(map) : map[i][1] = anomalyId}

\* C4: startConversation is idempotent per anomaly.  Whenever it returns,
\* the conversation returned has the id made from the anomaly's id, the
\* store holds exactly one conversation for that anomaly id and it is the
\* one returned, and its messages hold the opening message exactly once;
\* when the store already held a conversation for the anomaly, that same
\* conversation is returned and the store, the conversations and the
\* persisted entry are left as they were.
C4_StartConversationIdempotent ==
    [][ev'.op = "startConversation" =>
          LET anomalyId == ev'.arg
              oid == ev'.out[1]
          IN /\ oid \in DOMAIN heap'
             /\ heap'[oid].id = <<"conv", anomalyId>>
             /\ Cardinality(EntriesFor(conversations', anomalyId)) = 1
             /\ MapGet(conversations', anomalyId) = Some(oid)
             /\ Cardinality(Openings(heap'[oid].messages)) = 1
             /\ MapHas(conversations, anomalyId) =>
                   /\ MapGet(conversations, anomalyId) = Some(oid)
                   /\ conversations' = conversations
                   /\ heap' = heap
                   /\ globalState' = globalState]_vars

\* startConversation has returned the conversation of anomaly 1 again after
\* a message exchange on it, next to a conversation on anomaly 2.
C4_Witness ==
    /\ ev.op = "startConversation"
    /\ ev.arg = 1
    /\ MapHas(conversations, 2)
    /\ Len(heap[ev.out[1]].messages) = 3
    /\ Cardinality(Openings(heap[ev.out[1]].messages)) = 1

\* C5: sendMessage for an anomaly id without a conversation fails with the
\* not-found error, makes no model call, and leaves the Map, the
\* conversations and the persisted entry unchanged.
C5_SendToMissingConversation ==
    [][(/\ ev'.op \in {"sendMessage", "sendMessage.notFound"}
        /\ ev' # ev
        /\ ~MapHas(conversations, ev'.arg)) =>
          /\ ev'.op = "sendMessage.notFound"
          /\ sends' = sends
          /\ conversations' = conversations
          /\ heap' = heap
          /\ globalState' = globalState]_vars

\* sendMessage has failed for anomaly 1 while the store holds, and has
\* persisted, a conversation on anomaly 2.
C5_Witness ==
    /\ ev = Event("sendMessage.notFound", 1)
    /\ ~MapHas(conversations, 1)
    /\ MapHas(conversations, 2)
    /\ globalState # <<>>

----------------------------------------------------------------------------
(* Claims on overlapping sendMessage calls (SpecRace). *)

RolesOf(messages) == [i \in 1..Len(messages) |-> messages[i].role]

\* The persisted messages of an anomaly's conversation, if it has one.
PersistedIn(saved, anomalyId) ==
    IF MapHas(saved, anomalyId)
    THEN Some(MapGet(saved, anomalyId)[1].messages)
    ELSE Absent

PersistedMessages(anomalyId) == PersistedIn(globalState, anomalyId)

\* C11: a successful sendMessage appends exactly two messages, the user
\* message with the given content and then the assistant message with the
\* model's reply.  Its first step appends the user message and hands the chat
\* call the messages that already hold it, persisting nothing; the step of
\* the reply appends the assistant message behind the call's user message and
\* persists the conversation with it; the notification comes last, with both
\* messages in the conversation, and appends nothing.
C11_SendAppendsUserThenReply ==
    [][/\ ev'.op = "sendMessage" =>
            LET oid == ev'.out[1]
            IN /\ heap'[oid].messages =
                     Append(heap[oid].messages, userMessage(ev'.out[2], now))
               /\ ev'.out[3] = heap'[oid].messages
               /\ sends' = sends (+)
                     SetToBag({Send("chat", oid, ev'.arg, Len(heap'[oid].messages))})
               /\ globalState' = globalState
       /\ ev'.op = "sendMessage.chat" =>
            LET oid == ev'.out[1]
                userAt == ev'.out[3]
            IN /\ Send("chat", oid, ev'.arg, userAt) \in BagToSet(sends)
               /\ heap'[oid].messages =
                     Append(heap[oid].messages, assistantMessage(ev'.out[2], now))
               /\ userAt <= Len(heap[oid].messages)
               /\ heap[oid].messages[userAt].role = "user"
               /\ MapGet(conversations, ev'.arg) = Some(oid) =>
                     PersistedIn(globalState', ev'.arg) = Some(heap'[oid].messages)
       /\ ev'.op = "sendMessage.return" =>
            LET oid == ev'.out[1]
                fired == ev'.out[2]
                userAt == ev'.out[3]
            IN /\ Send("save", oid, ev'.arg, userAt) \in BagToSet(sends)
               /\ fired = heap[oid].messages
               /\ fired[userAt].role = "user"
               /\ \E i \in (userAt + 1)..Len(fired) : fired[i].content[1] = "reply"
               /\ oid \in DOMAIN heap' => heap'[oid] = heap[oid]
               /\ globalState' = globalState]_vars

\* A sendMessage has returned after its two messages went behind the opening
\* message.
C11_Witness ==
    /\ ev.op = "sendMessage.return"
    /\ RolesOf(ev.out[2]) = <<"assistant", "user", "assistant">>
    /\ ev.out[3] = 2
    /\ PersistedMessages(1) = Some(ev.out[2])

UsersOf(messages) == {i \in 1..Len(messages) : messages[i].role = "user"}

RepliesOf(messages) == {i \in 1..Len(messages) : messages[i].content[1] = "reply"}

AwaitingChat(oid) == {t \in BagToSet(sends) : t.oid = oid /\ t.pc = "chat"}

\* C12: nothing keeps sendMessage calls on one anomaly apart.  A call is
\* taken while others await the model, so that in every state each call
\* awaiting the model has its own user message in the conversation already,
\* and the user messages still without a reply are as many as the calls
\* awaiting the model: with two such calls both user messages come before
\* either reply.
C12_SendsInterleave ==
    \A oid \in DOMAIN heap :
        LET messages == heap[oid].messages
        IN /\ Cardinality(UsersOf(messages)) =
                 Cardinality(RepliesOf(messages)) + PendingReplies(oid)
           /\ \A t \in AwaitingChat(oid) :
                 /\ sends[t] = 1
                 /\ t.userAt \in UsersOf(messages)

\* Two calls on anomaly 1 have both returned, and the conversation holds
\* their two user messages before their two replies.
C12_Witness ==
    /\ sends = EmptyBag
    /\ ev.op = "sendMessage.return"
    /\ MapHas(conversations, 1)
    /\ RolesOf(heap[MapGet(conversations, 1)[1]].messages) =
          <<"assistant", "user", "user", "assistant", "assistant">>

----------------------------------------------------------------------------
(* Claims on persistence and on the shape of conversations (SpecConv). *)

\* C14: whenever no store operation is in flight, the persisted entry equals
\* the Map in memory.
C14_PersistedEqualsMemory ==
    sends = EmptyBag => globalState = saveConversations(conversations, heap)

IsPrefix(s, t) == Len(s) <= Len(t) /\ s = SubSeq(t, 1, Len(s))

StoredMessages(map, hp, anomalyId) == hp[MapGet(map, anomalyId)[1]].messages

WellFormed(conversation) ==
    /\ conversation.messages # <<>>
    /\ \E title \in Titles :
          conversation.messages[1] =
              initialMessage([id |-> conversation.anomalyId, title |-> title],
                             conversation.createdAt)

\* C16: every conversation of the store has a first message, the opening
\* assistant message synthesized for its anomaly, and is stored under the
\* key equal to its anomalyId, which no step changes.
C16_OpeningFirstAndKeyed ==
    [][/\ \A i \in 1..Len(conversations') :
             /\ WellFormed(heap'[conversations'[i][2]])
             /\ heap'[conversations'[i][2]].anomalyId = conversations'[i][1]
       /\ \A oid \in DOMAIN heap' :
             /\ WellFormed(heap'[oid])
             /\ oid \in DOMAIN heap => heap'[oid].anomalyId = heap[oid].anomalyId]_vars

\* Two conversations are stored, the one on anomaly 2 first, and the one on
\* anomaly 1 has taken a user message behind its opening message.
C16_Witness ==
    /\ MapValues(conversations) # <<>>
    /\ Len(conversations) = 2
    /\ conversations[1][1] = 2
    /\ RolesOf(StoredMessages(conversations, heap, 1)) = <<"assistant", "user">>
    /\ StoredMessages(conversations, heap, 1)[1].content[1] = "opening"

----------------------------------------------------------------------------
(* Claims on the analysis engine's files and credential (SpecCache). *)

FilesOf(anomalies) == {anomalies[i].file : i \in 1..Len(anomalies)}

\* C17: every anomaly belongs to the one file it was found in.  The anomalies
\* that analyzeFile(p) returns all have p as their file, and the cache entry
\* stored under p lists p alone as analyzed and holds only anomalies of p.
C17_AnomaliesBelongToTheirFile ==
    /\ \A p \in Paths :
          lastSuccess[p] # Absent => FilesOf(lastSuccess[p][1]) \subseteq {p}
    /\ \A i \in 1..Len(analysisCache) :
          /\ analysisCache[i][2].analyzedFiles = <<analysisCache[i][1]>>
          /\ FilesOf(analysisCache[i][2].anomalies) \subseteq {analysisCache[i][1]}

\* Both files are cached with anomalies, the second while a call on the
\* first was in flight.
C17_Witness ==
    /\ ev = Event("analyzeFile.return", 2)
    /\ InFlight(1)
    /\ Len(analysisCache) = 2
    /\ FilesOf(MapGet(analysisCache, 1)[1].anomalies) = {1}
    /\ FilesOf(MapGet(analysisCache, 2)[1].anomalies) = {2}

\* C18: analyzeFile and analyzeRepository called while no credential is set
\* fail with the not-configured error: no document is asked for, no file is
\* enumerated, no call is left in flight, and the cache stays as it was.
\* (While no credential is set an analyzeFile step never adds a call in
\* flight: the steps left are those of calls begun before.)
C18_NotConfiguredFailsFirst ==
    [][/\ (ev'.op = "analyzeFile" /\ ~apiKey) =>
            BagCardinality(calls') <= BagCardinality(calls)
       /\ ev'.op = "analyzeFile.notConfigured" =>
            /\ calls' = calls
            /\ analysisCache' = analysisCache
       /\ (/\ ev'.op \in {"analyzeRepository.start", "analyzeRepository.noFolder",
                          "analyzeRepository.notConfigured"}
           /\ ~apiKey) =>
            /\ ev'.op = "analyzeRepository.notConfigured"
            /\ scan'.pc = "idle"
            /\ calls' = calls
            /\ analysisCache' = analysisCache]_vars

\* The credential was removed after an analysis was cached, the client it
\* made is still there, and analyzeRepository has failed on the guard.
C18_Witness ==
    /\ ev.op = "analyzeRepository.notConfigured"
    /\ ~apiKey
    /\ client
    /\ analysisCache # <<>>

\* C19: whenever no credential is currently set, whatever the settings went
\* through before, analyze, chat and suggestFix fail with the not-configured
\* error and send no request to the remote model.
C19_NoCredentialNoRemoteCall ==
    [][(ev'.op \in {"client.request", "client.notConfigured"} /\ ~apiKey) =>
            /\ ev'.op = "client.notConfigured"
            /\ calls' = calls]_vars

\* What a command has posted once it is over, by how it ended.
PostedOnFailure == <<ChatLoading(TRUE), ChatError, ChatLoading(FALSE)>>
PostedOnSuccess(anomalyId) ==
    <<ChatLoading(TRUE), ConversationUpdated(anomalyId), ChatLoading(FALSE)>>

\* Command k ends in this step.
Ends(k) == k \in DOMAIN commands /\ commands[k].pc # "done" /\ commands'[k].pc = "done"

\* The ways the try block of _handleChatMessage throws: the document does not
\* open, the conversation is gone, the chat call rejects.
FailureEvents ==
    {"handleChatMessage.noDocument", "sendMessage.notFound", "sendMessage.failed"}

\* C20: when the chat call rejects, sendMessage rejects with it and no
\* assistant message is appended in place of the reply.  A command that has
\* posted chatLoading{loading: true} posts nothing more until it ends; it ends
\* when its try block throws, having posted chatError and then
\* chatLoading{loading: false}, or when sendMessage returns, having posted
\* conversationUpdated and then chatLoading{loading: false}; and every such
\* command ends.
C20_ChatFailureSurfaces ==
    /\ [][/\ ev'.op = "sendMessage.failed" =>
               /\ BagCardinality(sends') = BagCardinality(sends) - 1
               /\ \A oid \in DOMAIN heap' : heap'[oid].messages = heap[oid].messages
               /\ \E k \in DOMAIN commands : Ends(k)
          /\ \A k \in DOMAIN commands :
               /\ Ends(k) =>
                    /\ ev'.op \in FailureEvents \cup {"sendMessage.return"}
                    /\ ev'.op \in FailureEvents => commands'[k].posted = PostedOnFailure
                    /\ ev'.op = "sendMessage.return" =>
                         commands'[k].posted = PostedOnSuccess(currentAnomalyId[1])
               /\ ~Ends(k) => commands'[k].posted = commands[k].posted
               /\ commands[k].pc # "done" => commands[k].posted = <<ChatLoading(TRUE)>>]_vars
    /\ \A k \in 1..MaxCommands :
          (k \in DOMAIN commands /\ commands[k].posted[1] = ChatLoading(TRUE))
             ~> (/\ k \in DOMAIN commands
                 /\ commands[k].pc = "done"
                 /\ commands[k].posted[Len(commands[k].posted)] = ChatLoading(FALSE))

\* The first command ended on a rejected chat call, its user message left
\* without a reply, and the second has just ended on a reply.
C20_Witness ==
    /\ Len(commands) = 2
    /\ commands[1].posted = PostedOnFailure
    /\ commands[2].posted = PostedOnSuccess(currentAnomalyId[1])
    /\ ev.op = "sendMessage.return"
    /\ RolesOf(ev.out[2]) = <<"assistant", "user", "user", "assistant">>

\* C21: with a client, suggestFix returns null, and does not throw, when the
\* response is empty, is not JSON, or the request fails; when it returns a
\* CodeFix, the fix has exactly one edit, on the file and the range of the
\* anomaly it was asked about.
C21_FixAbsentOrOneEdit ==
    sOut # Absent =>
        LET out == sOut[1]
        IN /\ sClient => out.status = "returned"
           /\ (sClient /\ sResponse.kind \in {"rejected", "empty", "invalid"}) =>
                 out.fix = Absent
           /\ out.fix # Absent =>
                 /\ Len(out.fix[1].edits) = 1
                 /\ out.fix[1].edits[1].file = sAnomaly.file
                 /\ out.fix[1].edits[1].range =
                       [start |-> sAnomaly.start, end |-> sAnomaly.end]

\* suggestFix has answered null to a response that is not JSON.
C21_Witness ==
    /\ sOut = Some(FixReturned(Absent))
    /\ sResponse.kind = "invalid"

\* C22: every anomaly the parser produces has its type among the ten kinds
\* and its severity among error, warning and info; a type string outside the
\* ten becomes code_smell, a severity string outside the three becomes info,
\* and no anomaly of the response is dropped.
C22_TypeAndSeverityClosed ==
    aOut.status = "returned" =>
        /\ Len(aOut.anomalies) = Len(aResponse.anomalies)
        /\ \A i \in 1..Len(aOut.anomalies) :
              /\ aOut.anomalies[i].type \in AnomalyTypes
              /\ aOut.anomalies[i].severity \in Severities
              /\ aResponse.anomalies[i].type \notin AnomalyTypes =>
                    aOut.anomalies[i].type = "code_smell"
              /\ aResponse.anomalies[i].severity \notin Severities =>
                    aOut.anomalies[i].severity = "info"

\* C23: a scan takes its files one at a time and in order.  The analysis in
\* flight, if any, is that of file i + 1, and the files before it have each
\* ended, in success or in failure, as scanLog tells; the scan moves to a
\* later file only in the step that ends the analysis in flight, and never
\* moves back.
C23_ScanIsSequential ==
    /\ [](/\ scan.inner # "none" => (scan.pc = "file" /\ scan.i < Len(scan.files))
          /\ scan.pc \in {"file", "done"} =>
                /\ Len(scanLog) = scan.i
                /\ \A k \in 1..Len(scanLog) : scanLog[k].path = scan.files[k])
    /\ [][(scan.pc = "file" /\ scan'.pc \in {"file", "done"}) =>
             /\ scan'.files = scan.files
             /\ scan'.i >= scan.i
             /\ scan'.i > scan.i =>
                   /\ Len(scanLog') > Len(scanLog)
                   /\ scanLog'[scan.i + 1].path = scan.files[scan.i + 1]
             /\ scan'.i = scan.i => scanLog' = scanLog]_vars

\* The analysis of the second file awaits the model, that of the first
\* having succeeded.
C23_Witness ==
    /\ scan.pc = "file"
    /\ scan.i = 1
    /\ scan.inner = "remote"
    /\ Len(scanLog) = 1
    /\ scanLog[1].ok

\* C24: the cached entry of a path changes only in a step in which an
\* analyzeFile of that path returns or in a clearCache of that path or of
\* everything; an analyzeFile that fails, at the guard on the credential, at
\* the document, at the model or at the parsing, leaves the whole cache as it
\* was.
C24_CachedUntilInvalidated ==
    [][/\ analysisCache' # analysisCache =>
            \A p \in Paths :
               MapGet(analysisCache', p) # MapGet(analysisCache, p) =>
                  \/ ev' = Event("analyzeFile.return", p)
                  \/ ev'.op = "clearCache" /\ ev'.arg \in {p, 0}
       /\ ev'.op \in {"analyzeFile", "analyzeFile.notConfigured"} =>
            analysisCache' = analysisCache]_vars

\* The first file is cached with anomalies, the credential has been removed,
\* and an analyzeFile of that file has failed on the guard.
C24_Witness ==
    /\ ev = Event("analyzeFile.notConfigured", 1)
    /\ MapHas(analysisCache, 1)
    /\ MapGet(analysisCache, 1)[1].anomalies # <<>>
    /\ lastSuccess[1] = Some(MapGet(analysisCache, 1)[1].anomalies)

\* C25: getCachedResults() gives the anomalies of all the cached entries, one
\* entry after the other, and the paths of all the cached entries; it gives
\* null exactly when nothing is cached, so that entries without anomalies
\* still give an aggregate that lists their files.
C25_AggregateOfAllEntries ==
    LET aggregate == getAllCachedResults(analysisCache, now)
    IN /\ aggregate = Absent <=> analysisCache = <<>>
       /\ aggregate # Absent =>
             /\ aggregate[1].anomalies =
                   Flatten([i \in 1..Len(analysisCache) |-> analysisCache[i][2].anomalies])
             /\ aggregate[1].analyzedFiles =
                   [i \in 1..Len(analysisCache) |-> analysisCache[i][1]]

\* What does hold: the aggregate is null exactly when the cached entries
\* have no anomaly between them, and otherwise is as C25 describes it.
C25_AggregateUnlessNoAnomaly ==
    LET aggregate == getAllCachedResults(analysisCache, now)
        anomalies == Flatten([i \in 1..Len(analysisCache) |-> analysisCache[i][2].anomalies])
    IN /\ aggregate = Absent <=> anomalies = <<>>
       /\ aggregate # Absent =>
             /\ aggregate[1].anomalies = anomalies
             /\ aggregate[1].analyzedFiles =
                   [i \in 1..Len(analysisCache) |-> analysisCache[i][1]]

\* The rules a prompt line can have come from: the merged rules when there
\* are any, the default catalog otherwise.
SourceRules == IF Len(mergedRules[1]) > 0 THEN mergedRules[1] ELSE DEFAULT_RULES

\* C26: every rule listed in the system prompt is an enabled rule of the list
\* the prompt was built from, the merged rules or the default catalog, and
\* every enabled rule of that list is listed: no rule whose enabled flag is
\* false is in the prompt.
C26_PromptHasEnabledRulesOnly ==
    systemPrompt # Absent =>
        /\ \A i \in 1..Len(systemPrompt[1]) :
              \E j \in 1..Len(SourceRules) :
                 /\ SourceRules[j].id = systemPrompt[1][i].id
                 /\ SourceRules[j].name = systemPrompt[1][i].name
                 /\ SourceRules[j].enabled
        /\ \A j \in 1..Len(SourceRules) :
              IF SourceRules[j].enabled
              THEN \E i \in 1..Len(systemPrompt[1]) : systemPrompt[1][i].id = SourceRules[j].id
              ELSE \A i \in 1..Len(systemPrompt[1]) : systemPrompt[1][i].id # SourceRules[j].id

\* The user disabled one of the two rules the workspace enables, and the
\* prompt lists the other rule only.
C26_Witness ==
    /\ systemPrompt # Absent
    /\ Len(mergedRules[1]) = 2
    /\ \E j \in 1..2 : ~mergedRules[1][j].enabled
    /\ workspaceRulesOf(workspaceConfig) # <<>>
    /\ \A k \in 1..Len(workspaceRulesOf(workspaceConfig)) :
          workspaceRulesOf(workspaceConfig)[k].enabled
    /\ Len(systemPrompt[1]) = 1

\* The positions of the messages that are not system messages.
Kept(messages) == {i \in 1..Len(messages) : messages[i].role # "system"}

\* The k-th of those positions.
NthKept(messages, k) ==
    CHOOSE i \in Kept(messages) : Cardinality({j \in Kept(messages) : j < i}) = k - 1

\* C27: the request a sendMessage call has chat send starts with one system
\* prompt, the only system message of the request, and goes on with the role
\* and content of every message the conversation holds at the call that is
\* not a system message, in their order; the conversation at the call is what
\* it was before with the user message appended, so the request ends with
\* that user message.
C27_HistoryReplayed ==
    [][ev'.op = "sendMessage" =>
          LET oid == ev'.out[1]
              messages == heap'[oid].messages
              request == ev'.out[4]
          IN /\ messages = Append(heap[oid].messages, userMessage(ev'.out[2], now))
             /\ Len(request) = 1 + Cardinality(Kept(messages))
             /\ request[1] = SystemPrompt
             /\ \A k \in 1..Cardinality(Kept(messages)) :
                   /\ request[k + 1].role = messages[NthKept(messages, k)].role
                   /\ request[k + 1].content = messages[NthKept(messages, k)].content
                   /\ request[k + 1].role # "system"
             /\ request[Len(request)] =
                   [role |-> "user", content |-> userMessage(ev'.out[2], now).content]]_vars

\* A second call was made while the first awaits the model: its request is
\* the prompt, the opening message and the two user messages.
C27_Witness ==
    /\ ev.op = "sendMessage"
    /\ Len(ev.out[4]) = 4
    /\ [i \in 1..4 |-> ev.out[4][i].role] = <<"system", "assistant", "user", "user">>
    /\ BagCardinality(sends) = 2

\* The sidebar's list holds an anomaly with this id.
Listed(anomalyId) ==
    \E i \in DOMAIN sidebarAnomalies : sidebarAnomalies[i].id = anomalyId

\* Nothing posted, no sendMessage, suggestFix or analyzeFile call made, the
\* sidebar and the conversation store as they were.
Silent ==
    UNCHANGED <<sidebarAnomalies, currentAnomalyId, commands, fixes, outbox, convVars,
                calls>>

\* C28: a selectAnomaly or applyFix command whose anomaly id is not in the
\* sidebar's list, and a sendMessage command while the current anomaly is not
\* in the list, posts nothing to the webview, starts no call of the model and
\* leaves the sidebar's fields and the conversation store as they were.
C28_UnknownAnomalySilent ==
    [][/\ (/\ ev'.op \in {"startConversation", "selectAnomaly.ignored",
                          "applyFix", "applyFix.ignored"}
           /\ ~Listed(ev'.arg)) => Silent
       /\ (/\ ev'.op \in {"handleChatMessage", "handleChatMessage.ignored"}
           /\ currentAnomalyId # Absent
           /\ ~Listed(currentAnomalyId[1])) => Silent
       /\ ev'.op \in {"selectAnomaly.ignored", "applyFix.ignored"} => ~Listed(ev'.arg)]_vars

\* A sendMessage command with content was dropped: the anomaly selected
\* before, whose conversation has a call in flight, has left the list.
C28_Witness ==
    /\ ev.op = "handleChatMessage.ignored"
    /\ ~IsBlank(ev.arg)
    /\ currentAnomalyId # Absent
    /\ ~Listed(currentAnomalyId[1])
    /\ BagCardinality(sends) = 1

\* C30: with the commands coming from the chat panel alone, whose send
\* control is disabled while isChatLoading, no conversation has two
\* sendMessage calls in flight.
C30_OneSendPerConversation ==
    \A s \in BagToSet(sends), t \in BagToSet(sends) :
       s.oid = t.oid => s = t /\ CopiesIn(s, sends) = 1

----------------------------------------------------------------------------
(* SpecSurfaces: the operations that replace the anomalies shown, each run
   to its end before the next, with the credential set.  The analyzer stands
   for the lists it returns, and what the sidebar posts is left out. *)

\* An anomaly of file p found at time t: parseAnomalies makes its id of the
\* file, its index in the response and the time.
SurfaceAnomaly(p, t) == [id |-> <<p, 0, t>>, file |-> p]

\* What analyzeFile returns for file p.
FileResults(p) == {<<>>} \cup {<<SurfaceAnomaly(p, t)>> : t \in 0..MaxTime}

\* What analyzeRepository returns: the lists of the files, in order, a file
\* that fails giving none.
RepositoryResults ==
    {Flatten(c) : c \in {d \in [Paths -> UNION {FileResults(p) : p \in Paths}] :
                           \A p \in Paths : d[p] \in FileResults(p)}}

\* vscode.window.activeTextEditor, by the file it shows.
Editors == {Absent} \cup {Some(p) : p \in Paths}

\* anomalies.filter(a => a.location.file === file), and its complement.
OfFile(anomalies, p) == SelectSeq(anomalies, LAMBDA a : a.file = p)
NotOfFile(anomalies, p) == SelectSeq(anomalies, LAMBDA a : a.file # p)

\* DiagnosticsProvider: the collection is cleared and set per file.
updateDiagnostics(anomalies) == [p \in Paths |-> OfFile(anomalies, p)]
updateFileDiagnostics(collection, p, anomalies) ==
    [collection EXCEPT ![p] = OfFile(anomalies, p)]

\* DecorationsProvider: the anomalies of the editor's file are decorated.
updateDecorations(decorated, editor, anomalies) ==
    IF editor = Absent THEN decorated
    ELSE [decorated EXCEPT ![editor[1]] = OfFile(anomalies, editor[1])]
clearDecorations(decorated, editor) ==
    IF editor = Absent THEN decorated ELSE [decorated EXCEPT ![editor[1]] = <<>>]

outsideSurfaces ==
    <<configVars, analysisCache, calls, now, lastSuccess, scanVars, filterVars,
      analyzeVars, convVars, ruleVars, currentAnomalyId, commands, panelVars, fixVars,
      promptVars, overlapVars, uiVars>>

InitSurfaces == InitPanel

\* The command syntaxtual.reviewRepository.
ReviewRepository(result, editor) ==
    /\ apiKey
    /\ currentAnomalies' = result
    /\ diagnostics' = updateDiagnostics(result)
    /\ decorations' = updateDecorations(decorations, editor, currentAnomalies')
    /\ sidebarAnomalies' = result
    /\ ev' = Event("reviewRepository", Len(result))
    /\ UNCHANGED outsideSurfaces

\* The command syntaxtual.reviewFile, with the editor on file p.
ReviewFile(p, anomalies) ==
    /\ apiKey
    /\ currentAnomalies' = NotOfFile(currentAnomalies, p) \o anomalies
    /\ diagnostics' = updateFileDiagnostics(diagnostics, p, anomalies)
    /\ decorations' = updateDecorations(decorations, Some(p), anomalies)
    /\ sidebarAnomalies' = currentAnomalies'
    /\ ev' = EventOut("reviewFile", p, anomalies)
    /\ UNCHANGED outsideSurfaces

\* The listener of onDidSaveTextDocument, for a saved file p that is not
\* excluded, with autoAnalyze on.
AutoAnalyzeOnSave(p, anomalies, editor) ==
    /\ apiKey
    /\ currentAnomalies' = NotOfFile(currentAnomalies, p) \o anomalies
    /\ diagnostics' = updateFileDiagnostics(diagnostics, p, anomalies)
    /\ decorations' = IF editor = Some(p)
                      THEN updateDecorations(decorations, editor, anomalies)
                      ELSE decorations
    /\ ev' = EventOut("onDidSaveTextDocument", p, anomalies)
    /\ UNCHANGED <<sidebarAnomalies, outsideSurfaces>>

\* The listener of onDidChangeActiveTextEditor, for an editor on file p.
ChangeActiveTextEditor(p) ==
    /\ decorations' = updateDecorations(decorations, Some(p), OfFile(currentAnomalies, p))
    /\ ev' = Event("onDidChangeActiveTextEditor", p)
    /\ UNCHANGED <<currentAnomalies, diagnostics, sidebarAnomalies, outsideSurfaces>>

\* The command syntaxtual.clearAnalysis; the cache it clears is empty here.
ClearAnalysis(editor) ==
    /\ currentAnomalies' = <<>>
    /\ diagnostics' = [p \in Paths |-> <<>>]
    /\ decorations' = clearDecorations(decorations, editor)
    /\ sidebarAnomalies' = <<>>
    /\ ev' = Event("clearAnalysis", 0)
    /\ UNCHANGED outsideSurfaces

\* _analyzeRepository, on the analyzeRepository message of the webview.
SidebarAnalyzeRepository(result) ==
    /\ sidebarAnomalies' = result
    /\ ev' = Event("sidebar.analyzeRepository", Len(result))
    /\ UNCHANGED <<surfaceVars, outsideSurfaces>>

\* _analyzeCurrentFile, on the analyzeFile message of the webview, with the
\* editor on file p.
SidebarAnalyzeCurrentFile(p, anomalies) ==
    /\ sidebarAnomalies' = anomalies
    /\ ev' = EventOut("sidebar.analyzeFile", p, anomalies)
    /\ UNCHANGED <<surfaceVars, outsideSurfaces>>

NextSurfaces ==
    \/ \E result \in RepositoryResults, editor \in Editors : ReviewRepository(result, editor)
    \/ \E p \in Paths : \E anomalies \in FileResults(p) : ReviewFile(p, anomalies)
    \/ \E p \in Paths, editor \in Editors : \E anomalies \in FileResults(p) :
          AutoAnalyzeOnSave(p, anomalies, editor)
    \/ \E p \in Paths : ChangeActiveTextEditor(p)
    \/ \E editor \in Editors : ClearAnalysis(editor)
    \/ \E result \in RepositoryResults : SidebarAnalyzeRepository(result)
    \/ \E p \in Paths : \E anomalies \in FileResults(p) :
          SidebarAnalyzeCurrentFile(p, anomalies)

SpecSurfaces == InitSurfaces /\ [][NextSurfaces]_vars

\* The anomalies of a list.
Elements(list) == {list[i] : i \in DOMAIN list}

\* C29: whatever operations have run, the list of the sidebar holds exactly
\* the anomalies the diagnostics were made from (the decorations, made from
\* the same lists for the file of the active editor, are not compared).
C29_ListMatchesSurfaces ==
    Elements(sidebarAnomalies) = UNION {Elements(diagnostics[p]) : p \in Paths}

----------------------------------------------------------------------------
(* Claims on the ranges the response parser builds (SpecAnalyze). *)

\* C33: every anomaly analyze returns for a file of aLines lines has a range
\* with 0 <= start line <= end line <= aLines - 1, whatever startLine and
\* endLine the response carries.
C33_RangeWellFormed ==
    aOut.status = "returned" =>
       \A i \in DOMAIN aOut.anomalies :
          /\ 0 <= aOut.anomalies[i].start
          /\ aOut.anomalies[i].start <= aOut.anomalies[i].end
          /\ aOut.anomalies[i].end <= aLines - 1

----------------------------------------------------------------------------
(* Claims on a failed sendMessage (SpecConv). *)

\* C34: when the chat call of a sendMessage call rejects, the conversation
\* the call holds is left without the user message the call pushed.
C34_FailedSendLeavesNoMessage ==
    [][\A s \in BagToSet(sends) :
          (/\ ev'.op = "sendMessage.failed"
           /\ s.pc = "chat"
           /\ sends' = sends (-) SetToBag({s})
           /\ s.oid \in DOMAIN heap') =>
             heap'[s.oid].messages =
                SubSeq(heap[s.oid].messages, 1, s.userAt - 1) \o
                SubSeq(heap[s.oid].messages, s.userAt + 1, Len(heap[s.oid].messages))]_vars

----------------------------------------------------------------------------
(* SpecOverlap: analyzeFile calls that overlap each other and clearCache(),
   told apart by the order in which they started. *)

\* A call in flight as flights records it: the Call it is in calls, whether
\* clearCache() ran since it started (stale), and whether a call for the same
\* path that started after it has already returned (overtaken).
Flight(pc, path, stale, overtaken) ==
    [pc |-> pc, path |-> path, stale |-> stale, overtaken |-> overtaken]

CallOf(flight) == Call(flight.pc, flight.path)

\* The flights once the k-th of them has returned: those of its path that
\* started before it are overtaken.
Overtake(list, k) ==
    [i \in DOMAIN list |->
        IF i < k /\ list[i].path = list[k].path
        THEN [list[i] EXCEPT !.overtaken = TRUE]
        ELSE list[i]]

\* The flights once clearCache() has run.
Stale(list) == [i \in DOMAIN list |-> [list[i] EXCEPT !.stale = TRUE]]

OverlapStart(p) ==
    /\ AnalyzeFileStartCore(p)
    /\ flights' = IF isConfigured
                  THEN Append(flights, Flight("open", p, FALSE, FALSE))
                  ELSE flights
    /\ UNCHANGED <<sidebarAnomalies, uiVars>>

OverlapDocumentFailed(k) ==
    /\ DocumentFailedCore(CallOf(flights[k]))
    /\ flights' = RemoveAt(flights, k)
    /\ UNCHANGED <<sidebarAnomalies, uiVars>>

OverlapDocumentOpened(k) ==
    /\ DocumentOpenedCore(CallOf(flights[k]))
    /\ flights' = IF client
                  THEN [flights EXCEPT ![k].pc = "remote"]
                  ELSE RemoveAt(flights, k)
    /\ UNCHANGED <<sidebarAnomalies, uiVars>>

\* What flights becomes when its k-th call ends, returning or throwing.
Ended(list, k, returned) ==
    RemoveAt(IF returned THEN Overtake(list, k) ELSE list, k)

OverlapModelReplied(k, response) ==
    /\ ModelRepliedCore(CallOf(flights[k]), response)
    /\ flights' = Ended(flights, k, ev'.op = "analyzeFile.return")
    /\ UNCHANGED <<sidebarAnomalies, uiVars>>

\* The command syntaxtual.clearAnalysis, as far as the engine goes:
\* codeAnalyzer.clearCache().
OverlapClearAnalysis ==
    /\ ClearCacheAllCore
    /\ flights' = Stale(flights)
    /\ UNCHANGED <<sidebarAnomalies, uiVars>>

NextOverlap ==
    \/ \E p \in Paths : OverlapStart(p)
    \/ \E k \in DOMAIN flights : OverlapDocumentFailed(k)
    \/ \E k \in DOMAIN flights : OverlapDocumentOpened(k)
    \/ \E k \in DOMAIN flights, r \in EngineReplies : OverlapModelReplied(k, r)
    \/ OverlapClearAnalysis
    \/ \E key \in BOOLEAN : SetApiKey(key)

SpecOverlap == InitCache /\ [][NextOverlap]_vars

\* The k-th call in flight returns in this step.
Returns(k) ==
    /\ k \in DOMAIN flights
    /\ flights[k].pc = "remote"
    /\ ev'.op = "analyzeFile.return"
    /\ flights' = Ended(flights, k, TRUE)

\* C35: when two analyzeFile calls for one path overlap, the entry of the
\* path holds the result of the call that started later whatever the order
\* of the replies: a call that returns after a call started later than it
\* has returned leaves the entry as that call stored it.
C35_LaterStartWins ==
    [][\A k \in DOMAIN flights :
          (Returns(k) /\ flights[k].overtaken) =>
             MapGet(analysisCache', flights[k].path) =
                MapGet(analysisCache, flights[k].path)]_vars

\* C36: a call that was in flight when clear-analysis ran does not store its
\* result afterwards: the cache is as it was when such a call returns.
C36_ClearedStaysCleared ==
    [][\A k \in DOMAIN flights :
          (Returns(k) /\ flights[k].stale) => analysisCache' = analysisCache]_vars

----------------------------------------------------------------------------
(* Claims on the single-file analyses (SpecSurfaces). *)

\* The operations that analyze one file, by the three ways they are started.
SingleFileAnalyses == {"reviewFile", "onDidSaveTextDocument", "sidebar.analyzeFile"}

\* C39: an analysis of one file, started by the review-file command, by a
\* save or by the analyzeFile message of the sidebar, leaves in the current
\* anomaly list the anomalies of the other files and puts the anomalies it
\* found in the place of those of its file.
C39_SingleFileReplacesOwn ==
    [][ev'.op \in SingleFileAnalyses =>
          currentAnomalies' = NotOfFile(currentAnomalies, ev'.arg) \o ev'.out]_vars

----------------------------------------------------------------------------
(* SpecSwitch: the sidebar with two anomalies in its list, the selection
   moving from one to the other while a sendMessage command is answered.
   _selectAnomaly is taken in one step, to the end of its awaits. *)

OtherAnomaly == [id |-> 2, title |-> "leak"]

\* The anomaly lists the sidebar is given.
SwitchLists == {<<>>, <<RaceAnomaly, OtherAnomaly>>}

NextSwitch ==
    \/ Deliver
    \/ \E anomalies \in SwitchLists : PanelUpdateAnomalies(anomalies)
    \/ \E anomalyId \in AnomalyIds, shown \in BOOLEAN : PanelSelectAnomaly(anomalyId, shown)
    \/ \E content \in UserContents : QuietChatMessage(content)
    \/ \E k \in DOMAIN commands : PanelDocumentFailed(k)
    \/ \E k \in DOMAIN commands : PanelDocumentOpened(k)
    \/ \E k \in DOMAIN commands, response \in ChatReplies : PanelChatReplied(k, response)
    \/ \E k \in DOMAIN commands : PanelChatFailed(k)
    \/ \E k \in DOMAIN commands : PanelSendSaved(k)

SpecSwitch == InitPanel /\ [][NextSwitch]_vars

\* C37: the sendMessage call a command makes is for the anomaly that was
\* current when the command was received, the one its context is built
\* from, whatever is selected while the command is answered.
C37_SendGoesToReceivedAnomaly ==
    \A k \in DOMAIN commands :
       commands[k].send # Absent =>
          commands[k].send[1].anomalyId = commands[k].anomaly.id

\* The anomaly of the conversationUpdated message posted last: the last one
\* waiting in the outbox, or else the one the webview handled last.
LastConversationUpdated ==
    LET waiting == SelectSeq(outbox, LAMBDA message : message.type = "conversationUpdated")
    IN IF waiting # <<>> THEN Some(waiting[Len(waiting)].payload[1])
       ELSE webview.conversation

\* C38: while no handler of the sidebar is suspended, the current anomaly
\* of the sidebar is the anomaly of the conversationUpdated posted last.
C38_CurrentIsLastPosted ==
    (fixes = <<>> /\ \A k \in DOMAIN commands : commands[k].pc = "done") =>
       currentAnomalyId = LastConversationUpdated

----------------------------------------------------------------------------
(* SpecUi: the analyses the sidebar runs on the analyzeFile and
   analyzeRepository messages of its webview, over the analyzer.  What an
   analysis posts is kept with it. *)

\* The analyses the webview asks for in a behavior.
MaxAnalyses == 1

\* The mutant sends the lines as they are stored.
serializeAnomalyZeroBased(anomaly) ==
    [id |-> anomaly.id, type |-> anomaly.type, severity |-> anomaly.severity,
     file |-> anomaly.file, startLine |-> anomaly.start, endLine |-> anomaly.end,
     codeSnippet |-> anomaly.snippet]

\* _serializeAnomaly, on the fields the parser's anomalies have here.
serializeAnomaly(anomaly) ==
    [id |-> anomaly.id, type |-> anomaly.type, severity |-> anomaly.severity,
     file |-> anomaly.file, startLine |-> anomaly.start + 1,
     endLine |-> anomaly.end + 1, codeSnippet |-> anomaly.snippet]

\* _serializeAnomalies
serializeAnomalies(anomalies) ==
    [i \in DOMAIN anomalies |-> serializeAnomaly(anomalies[i])]

\* The analysisComplete message with its payload.
AnalysisCompleted(anomalies, analyzedFiles) ==
    [type |-> "analysisComplete",
     payload |-> <<serializeAnomalies(anomalies), analyzedFiles>>]

\* An analysis of the sidebar: the message that asked for it ("file" or
\* "repository"), where it is suspended ("open" and "remote" as the
\* analyzeFile call it awaits, "scan" at analyzeRepository, "done" once it
\* has returned), the file of the editor, and what it has posted.
Analysis(kind, pc, path, posted) ==
    [kind |-> kind, pc |-> pc, path |-> path, posted |-> posted]

\* The try block ends: _anomalies is assigned and analysisComplete posted.
AnalysisSucceeded(analysis, anomalies, analyzedFiles) ==
    [analysis EXCEPT !.pc = "done",
                     !.posted = @ \o <<AnalysisCompleted(anomalies, analyzedFiles)>>]

\* The mutant swallows the error.
AnalysisFailedSilent(analysis) == [analysis EXCEPT !.pc = "done"]

\* The catch block: analysisError is posted and the error is shown.
AnalysisFailed(analysis) ==
    [analysis EXCEPT !.pc = "done", !.posted = @ \o <<AnalysisError>>]

\* The credential and the threshold are whatever the settings hold.
InitUi ==
    /\ apiKey \in BOOLEAN
    /\ client = apiKey
    /\ severityThreshold \in Thresholds
    /\ analysisCache = <<>>
    /\ calls = EmptyBag
    /\ now = 0
    /\ ev = NoEvent
    /\ lastSuccess = [p \in Paths |-> Absent]
    /\ ScanIdle
    /\ FilterIdle
    /\ AnalyzeIdle
    /\ ConvIdle
    /\ RulesIdle
    /\ BridgeIdle
    /\ UiIdle
    /\ OverlapIdle
    /\ SurfaceIdle
    /\ PromptIdle
    /\ FixIdle

\* _analyzeCurrentFile up to its await of analyzeFile, which throws at once
\* without a credential; without an editor a warning is shown and nothing
\* is posted.
UiAnalyzeCurrentFile(editor) ==
    /\ Len(analyses) < MaxAnalyses
    /\ IF editor = Absent
       THEN /\ ev' = Event("sidebar.noEditor", 0)
            /\ UNCHANGED <<analyses, analysisCache, calls, now, lastSuccess, configVars,
                           scanVars, outsideCallers>>
       ELSE /\ AnalyzeFileStartCore(editor[1])
            /\ analyses' = Append(analyses,
                  IF isConfigured
                  THEN Analysis("file", "open", editor[1], <<AnalysisStarted>>)
                  ELSE AnalysisFailed(Analysis("file", "open", editor[1],
                                               <<AnalysisStarted>>)))
    /\ UNCHANGED <<sidebarAnomalies, overlapVars>>

\* openTextDocument rejects inside analyzeFile.
UiDocumentFailed(k) ==
    /\ analyses[k].kind = "file"
    /\ DocumentFailedCore(CallOf(analyses[k]))
    /\ analyses' = [analyses EXCEPT ![k] = AnalysisFailed(@)]
    /\ UNCHANGED <<sidebarAnomalies, overlapVars>>

\* The document opens inside analyzeFile.
UiDocumentOpened(k) ==
    /\ analyses[k].kind = "file"
    /\ DocumentOpenedCore(CallOf(analyses[k]))
    /\ analyses' = [analyses EXCEPT ![k] =
                      IF client THEN [@ EXCEPT !.pc = "remote"] ELSE AnalysisFailed(@)]
    /\ UNCHANGED <<sidebarAnomalies, overlapVars>>

\* The remote call answers: analyzeFile returns the list it has stored, or
\* throws.
UiModelReplied(k, response) ==
    /\ analyses[k].kind = "file"
    /\ ModelRepliedCore(CallOf(analyses[k]), response)
    /\ IF ev'.op = "analyzeFile.return"
       THEN LET anomalies == MapGet(analysisCache', analyses[k].path)[1].anomalies
            IN /\ sidebarAnomalies' = anomalies
               /\ analyses' = [analyses EXCEPT ![k] = AnalysisSucceeded(@, anomalies, 1)]
       ELSE /\ analyses' = [analyses EXCEPT ![k] = AnalysisFailed(@)]
            /\ UNCHANGED sidebarAnomalies
    /\ UNCHANGED overlapVars

\* _analyzeRepository up to the first await of analyzeRepository, which
\* throws at once without a credential or a workspace folder.
UiAnalyzeRepository(hasFolder) ==
    /\ Len(analyses) < MaxAnalyses
    /\ ScanStartCore(hasFolder)
    /\ analyses' = Append(analyses,
          IF scan'.pc = "enumerate"
          THEN Analysis("repository", "scan", 0, <<AnalysisStarted>>)
          ELSE AnalysisFailed(Analysis("repository", "scan", 0, <<AnalysisStarted>>)))
    /\ UNCHANGED <<sidebarAnomalies, overlapVars>>

\* A step of the scan analysis k awaits: when the scan ends with it,
\* analyzeRepository returns, _anomalies is assigned and analysisComplete
\* is posted.
UiScanned(k) ==
    /\ analyses[k].pc = "scan"
    /\ IF scan'.pc = "done"
       THEN /\ sidebarAnomalies' = scan'.allAnomalies
            /\ analyses' = [analyses EXCEPT ![k] =
                  AnalysisSucceeded(@, scan'.allAnomalies, Len(scan'.analyzedFiles))]
       ELSE UNCHANGED <<sidebarAnomalies, analyses>>
    /\ UNCHANGED overlapVars

\* The steps of the scan; a list cut to a smaller maxFilesToAnalyze is one
\* of the lists getFilesToAnalyze can come up with.
UiScanEnumerated(k, files, maxFiles) == ScanEnumeratedCore(files, maxFiles) /\ UiScanned(k)
UiScanDocumentFailed(k) == ScanDocumentFailedCore /\ UiScanned(k)
UiScanDocumentOpened(k) == ScanDocumentOpenedCore /\ UiScanned(k)
UiScanModelReplied(k, response) == ScanModelRepliedCore(response) /\ UiScanned(k)

NextUi ==
    \/ \E editor \in Editors : UiAnalyzeCurrentFile(editor)
    \/ \E k \in DOMAIN analyses : UiDocumentFailed(k)
    \/ \E k \in DOMAIN analyses : UiDocumentOpened(k)
    \/ \E k \in DOMAIN analyses, r \in EngineReplies : UiModelReplied(k, r)
    \/ \E hasFolder \in BOOLEAN : UiAnalyzeRepository(hasFolder)
    \/ \E k \in DOMAIN analyses, files \in FileLists :
          UiScanEnumerated(k, files, MaxFiles)
    \/ \E k \in DOMAIN analyses : UiScanDocumentFailed(k)
    \/ \E k \in DOMAIN analyses : UiScanDocumentOpened(k)
    \/ \E k \in DOMAIN analyses, r \in EngineReplies : UiScanModelReplied(k, r)

SpecUi == InitUi /\ [][NextUi]_vars

----------------------------------------------------------------------------
(* Claims on the analyses of the sidebar (SpecUi). *)

\* The messages that end an analysis.
Terminals == {"analysisComplete", "analysisError"}

\* Analysis k ends in this step.
AnalysisEnds(k) ==
    /\ k \in DOMAIN analyses'
    /\ analyses'[k].pc = "done"
    /\ k \in DOMAIN analyses => analyses[k].pc # "done"

\* What analysis k awaits has not settled yet.
Awaiting(k) ==
    IF analyses[k].kind = "file"
    THEN BagIn(CallOf(analyses[k]), calls)
    ELSE scan.pc \in {"enumerate", "file"}

\* An analysis has posted analysisStarted and then, once what it awaits has
\* settled and not before, one terminal message.
Protocol(k) ==
    /\ analyses[k].posted # <<>>
    /\ analyses[k].posted[1] = AnalysisStarted
    /\ IF analyses[k].pc = "done"
       THEN /\ Len(analyses[k].posted) = 2
            /\ analyses[k].posted[2].type \in Terminals
       ELSE /\ Len(analyses[k].posted) = 1
            /\ Awaiting(k)

\* The terminal message of a single-file analysis: analysisComplete with the
\* anomalies analyzeFile returned, none below the threshold, and 1 as
\* analyzedFiles when it returned, analysisError when it threw.
SingleFileTerminal(k) ==
    LET message == analyses'[k].posted[2]
        returned == lastSuccess'[analyses'[k].path][1]
    IN IF ev'.op = "analyzeFile.return"
       THEN /\ message.type = "analysisComplete"
            /\ message.payload[2] = 1
            /\ Len(message.payload[1]) = Len(returned)
            /\ \A i \in DOMAIN returned :
                  /\ message.payload[1][i].id = returned[i].id
                  /\ SeverityLevel(message.payload[1][i].severity) <=
                        SeverityLevel(severityThreshold)
       ELSE message.type = "analysisError"

\* C31: every analysis the webview asks for posts analysisStarted and then
\* exactly one of analysisComplete and analysisError, posted in the step in
\* which what it awaits settles; a single-file analysis that succeeds posts
\* analysisComplete with the filtered anomalies (an empty list when there
\* are none) and analyzedFiles = 1, one that fails posts analysisError, and
\* without an editor nothing is posted.
C31_StartedThenOneTerminal ==
    [][/\ \A k \in DOMAIN analyses' : Protocol(k)'
       /\ \A k \in DOMAIN analyses' :
             (AnalysisEnds(k) /\ analyses'[k].kind = "file") => SingleFileTerminal(k)
       /\ ev'.op = "sidebar.noEditor" => analyses' = analyses]_vars

\* A single-file analysis has ended with analysisComplete, under the
\* threshold that lets only one of the two anomalies of the response through.
C31_Witness ==
    \E k \in DOMAIN analyses :
       /\ analyses[k].pc = "done"
       /\ analyses[k].kind = "file"
       /\ analyses[k].posted[2].type = "analysisComplete"
       /\ Len(analyses[k].posted[2].payload[1]) = 1
       /\ severityThreshold = "error"

\* The transported anomaly against the stored one.
Transported(wire, stored) ==
    /\ wire.id = stored.id
    /\ wire.type = stored.type
    /\ wire.severity = stored.severity
    /\ wire.file = stored.file
    /\ wire.codeSnippet = stored.snippet
    /\ wire.startLine - 1 = stored.start
    /\ wire.endLine - 1 = stored.end

====
